---- MODULE Spec2Model ----
(***************************************************************************)
(* FleetLink backend: vehicle directory, reservation ledger, availability  *)
(* resolver (GET /api/vehicles/available), booking committer               *)
(* (POST /api/bookings) and status update (PATCH /api/bookings/:id/status).*)
(*                                                                         *)
(* Units.  An instant is a number of half-hours since an epoch, so that    *)
(* the minimum ride duration of 0.5 h is the integer 1.  A duration is     *)
(* held in half-hours as well: the field estimatedRideDurationHours of the *)
(* model is twice the number the code holds.  One year, which the code     *)
(* writes 365 * 24 * 60 * 60 * 1000 ms, is 365 * 24 * 2 half-hours.        *)
(*                                                                         *)
(* Storage.  The store is MongoDB behind mongoose.  Every awaited storage  *)
(* call is one step of the model; the handler code between two awaits runs *)
(* with that step (node runs it without preemption).  A multi-document     *)
(* transaction reads a snapshot, keeps its writes private until            *)
(* commitTransaction, and is aborted only by a write conflict on the SAME  *)
(* document: two transactions that insert different documents both commit. *)
(* A storage call may fail; a failed commitTransaction commits nothing.    *)
(***************************************************************************)
EXTENDS Integers, Sequences, FiniteSets, TLC

\* ---------------------------------------------------------------- bounds
MaxNow == 1          \* the clock runs over 0 .. MaxNow
MaxStart == 2        \* requested start instants 0 .. MaxStart (and the far ones)
MaxInstant == 3      \* the interval bounds given to the overlap predicate: 0 .. MaxInstant
MaxPinGap == 25      \* the pincodes given to the duration estimate: 110001 .. 110001 + MaxPinGap

\* ------------------------------------------------------- pure functions
Digits == {"0", "1", "2", "3", "4", "5", "6", "7", "8", "9"}

DigitVal(c) ==
    CASE c = "0" -> 0 [] c = "1" -> 1 [] c = "2" -> 2 [] c = "3" -> 3
      [] c = "4" -> 4 [] c = "5" -> 5 [] c = "6" -> 6 [] c = "7" -> 7
      [] c = "8" -> 8 [] c = "9" -> 9

\* the test without its anchors' length: /^\d+$/
IsPincodeAnyLength(s) == Len(s) > 0 /\ \A i \in 1..Len(s) : s[i] \in Digits

\* /^\d{6}$/.test(s)
IsPincode(s) == Len(s) = 6 /\ \A i \in 1..Len(s) : s[i] \in Digits

\* parseInt of a string of decimal digits
RECURSIVE parseInt(_)
parseInt(s) ==
    IF s = <<>> THEN 0
    ELSE 10 * parseInt(SubSeq(s, 1, Len(s) - 1)) + DigitVal(s[Len(s)])

Abs(x) == IF x < 0 THEN -x ELSE x

Range(f) == { f[x] : x \in DOMAIN f }

Max(a, b) == IF a >= b THEN a ELSE b

\* the estimate without its floor: Math.abs(toNum - fromNum) % 24
calculateRideDurationNoFloor(fromPincode, toPincode) ==
    2 * (Abs(parseInt(toPincode) - parseInt(fromPincode)) % 24)

\* Math.max(Math.abs(toNum - fromNum) % 24, 0.5) hours, in half-hours
calculateRideDuration(fromPincode, toPincode) ==
    Max(2 * (Abs(parseInt(toPincode) - parseInt(fromPincode)) % 24), 1)

\* the predicate with its second comparison closed: touching ranges overlap
doTimeRangesOverlapOneSided(start1, end1, start2, end2) ==
    start1 < end2 /\ start2 <= end1

\* the predicate with both comparisons closed
doTimeRangesOverlapClosed(start1, end1, start2, end2) ==
    start1 <= end2 /\ start2 <= end1

\* the predicate that wants the two ranges to differ
doTimeRangesOverlapProper(start1, end1, start2, end2) ==
    /\ start1 < end2 /\ start2 < end1
    /\ start1 # start2 \/ end1 # end2

\* start1 < end2 && start2 < end1
doTimeRangesOverlap(start1, end1, start2, end2) ==
    start1 < end2 /\ start2 < end1

calculateEndTime(startTime, durationHours) == startTime + durationHours

maxAdvance == 365 * 24 * 2

\* validateBookingTime with startTime < now as its first test
validateBookingTimeInclusive(startTime, clock) ==
    IF startTime < clock
    THEN [isValid |-> FALSE, message |-> "Start time must be in the future"]
    ELSE IF startTime > clock + maxAdvance
    THEN [isValid |-> FALSE, message |-> "Cannot book more than 1 year in advance"]
    ELSE [isValid |-> TRUE, message |-> "Valid booking time"]

\* validateBookingTime with the clock reading `clock`
validateBookingTime(startTime, clock) ==
    IF startTime <= clock
    THEN [isValid |-> FALSE, message |-> "Start time must be in the future"]
    ELSE IF startTime > clock + maxAdvance
    THEN [isValid |-> FALSE, message |-> "Cannot book more than 1 year in advance"]
    ELSE [isValid |-> TRUE, message |-> "Valid booking time"]

\* mongoose.Types.ObjectId.isValid, on the ids the model submits
ObjectIdIsValid(id) == id \in {"v1", "v2", "v3", "v9"}

\* String.prototype.trim, on the customer ids the model submits
trim(s) == IF s = " " THEN "" ELSE s

\* new Date(s).getTime(): -1 stands for NaN, the time of an Invalid Date
NaN == 0 - 1

ParseDate(s) == IF s.k = "iso" THEN s.t ELSE NaN

\* ----------------------------------------------------------------- state
VARIABLES
    now,        \* the clock, read by new Date()
    vehicles,   \* Vehicle collection: _id -> [capacityKg, tyres, isActive]
    bookings,   \* Booking collection: the committed documents
    req,        \* the POST /api/bookings calls: position and locals of each
    res,        \* the GET /api/vehicles/available call: position and locals
    patch,      \* the answer of the last PATCH /api/bookings/:id/status call
    calc,       \* the last application of a function of rideCalculations.js
    vpost,      \* the answer of the last POST /api/vehicles call
    got         \* the answer of the last listing call (GET of bookings or vehicles)

vars == <<now, vehicles, bookings, req, res, patch, calc, vpost, got>>

\* two callers of POST /api/bookings
Requests == {1, 2}

ActiveStatuses == {"confirmed", "in-progress"}

Statuses == {"confirmed", "in-progress", "completed", "cancelled"}

\* ---------------------------------------------------------- Booking model
\* no pre-save hook: the document keeps the endTime it was given
PreSaveKeepsEndTime(doc) == doc

\* the hook adding the hours as if they were milliseconds: the end falls on
\* the instant of the start
PreSaveAddsHoursAsMillis(doc) ==
    IF doc.startTime # NaN /\ doc.estimatedRideDurationHours # 0
    THEN [doc EXCEPT !.endTime = doc.startTime]
    ELSE doc

\* bookingSchema.pre('save'): endTime is recomputed from startTime and duration
PreSave(doc) ==
    IF doc.startTime # NaN /\ doc.estimatedRideDurationHours # 0
    THEN [doc EXCEPT !.endTime = doc.startTime + doc.estimatedRideDurationHours]
    ELSE doc

\* the schema without the validator of startTime
SchemaValidNoClock(doc, clock) ==
    /\ doc.customerId # ""
    /\ doc.status \in Statuses

\* the schema validators a document can fail here: customerId required (after
\* trim), startTime > new Date(), status in the enum
SchemaValid(doc, clock) ==
    /\ doc.customerId # ""
    /\ doc.startTime > clock
    /\ doc.status \in Statuses

\* the overlap filter with closed bounds ($lte / $gte): touching intervals conflict
FindOverlappingClosed(coll, vehicleId, startTime, endTime) ==
    { b \in coll : /\ b.vehicleId = vehicleId
                   /\ b.status \in ActiveStatuses
                   /\ b.startTime <= endTime
                   /\ b.endTime >= startTime }

\* the overlap filter without the status clause
FindOverlappingAnyStatus(coll, vehicleId, startTime, endTime) ==
    { b \in coll : /\ b.vehicleId = vehicleId
                   /\ b.startTime < endTime
                   /\ b.endTime > startTime }

\* the overlap filter without the vehicle clause
FindOverlappingAnyVehicle(coll, vehicleId, startTime, endTime) ==
    { b \in coll : /\ b.status \in ActiveStatuses
                   /\ b.startTime < endTime
                   /\ b.endTime > startTime }

\* the overlap filter with $gte on endTime: a ride ending at the requested
\* start conflicts
FindOverlappingEndClosed(coll, vehicleId, startTime, endTime) ==
    { b \in coll : /\ b.vehicleId = vehicleId
                   /\ b.status \in ActiveStatuses
                   /\ b.startTime < endTime
                   /\ b.endTime >= startTime }

\* the overlap filter that asks for a start inside the window
FindOverlappingStartInside(coll, vehicleId, startTime, endTime) ==
    { b \in coll : /\ b.vehicleId = vehicleId
                   /\ b.status \in ActiveStatuses
                   /\ b.startTime >= startTime
                   /\ b.startTime < endTime }

\* Booking.find({vehicleId, status: {$in: [...]}, startTime: {$lt: end}, endTime: {$gt: start}})
FindOverlapping(coll, vehicleId, startTime, endTime) ==
    { b \in coll : /\ b.vehicleId = vehicleId
                   /\ b.status \in ActiveStatuses
                   /\ b.startTime < endTime
                   /\ b.endTime > startTime }

\* conflictingBookings.map(booking => ({id, startTime, endTime, route}))
ConflictSummary(found) ==
    { [id |-> b._id, startTime |-> b.startTime, endTime |-> b.endTime,
       route |-> <<b.fromPincode, b.toPincode>>] : b \in found }

\* ----------------------------------------------------------------- inputs
P110001 == <<"1", "1", "0", "0", "0", "1">>
P110002 == <<"1", "1", "0", "0", "0", "2">>
P110025 == <<"1", "1", "0", "0", "2", "5">>
P12345 == <<"1", "2", "3", "4", "5">>
P11000a == <<"1", "1", "0", "0", "0", "a">>

Iso(t) == [k |-> "iso", t |-> t]

BadDate == [k |-> "bad", t |-> 0]

NoDate == [k |-> "none", t |-> 0]

\* the instants a request may name: the near ones and the first beyond a year
StartInstants == (0..MaxStart) \cup {maxAdvance + 1}

BaseBody == [vehicleId |-> "v1", fromPincode |-> P110001, toPincode |-> P110002,
             startTime |-> Iso(2), customerId |-> "c1"]

\* well-shaped bodies: 110001 -> 110002 takes 1 h, 110001 -> 110025 takes 0.5 h
WellShapedBodies ==
    { [BaseBody EXCEPT !.vehicleId = v, !.toPincode = p, !.startTime = Iso(t)] :
        v \in {"v1", "v2"}, p \in {P110002, P110025}, t \in StartInstants }

\* the base body with one field missing, malformed or dangling
MalformedBodies ==
    { [BaseBody EXCEPT !.vehicleId = v] : v \in {"", "bad", "v9"} }
    \cup { [BaseBody EXCEPT !.fromPincode = p] : p \in {<<>>, P12345, P11000a} }
    \cup { [BaseBody EXCEPT !.startTime = s] : s \in {NoDate, BadDate} }
    \cup { [BaseBody EXCEPT !.customerId = c] : c \in {"", " "} }

Bodies == WellShapedBodies \cup MalformedBodies

Num(n) == [k |-> "num", n |-> n]

BadNum == [k |-> "bad", n |-> 0]

NoNum == [k |-> "none", n |-> 0]

\* parseFloat(capacityRequired): NaN for a string that starts with no number
parseFloat(s) == IF s.k = "num" THEN s.n ELSE NaN

BaseQuery == [capacityRequired |-> Num(1000), fromPincode |-> P110001,
              toPincode |-> P110002, startTime |-> Iso(2)]

\* the sample fleet holds 1000, 1500 and 2000 kg: all, two and none qualify
WellShapedQueries ==
    { [BaseQuery EXCEPT !.capacityRequired = Num(c), !.toPincode = p,
                        !.startTime = Iso(t)] :
        c \in {1000, 1001, 2001}, p \in {P110002, P110025}, t \in StartInstants }

MalformedQueries ==
    { [BaseQuery EXCEPT !.capacityRequired = c] : c \in {NoNum, BadNum, Num(0)} }
    \cup { [BaseQuery EXCEPT !.toPincode = p] : p \in {<<>>, P12345, P11000a} }
    \cup { [BaseQuery EXCEPT !.startTime = t] : t \in {NoDate, BadDate} }

Queries == WellShapedQueries \cup MalformedQueries

\* the bodies of the commits that run beside a resolve
NearBodies ==
    { [BaseBody EXCEPT !.vehicleId = v, !.toPincode = p, !.startTime = Iso(t)] :
        v \in {"v1", "v2"}, p \in {P110025}, t \in 1..MaxStart }

\* the bodies of the commits that fill the ledger with rides of 0.5 h and 1 h
FilterBodies ==
    { [BaseBody EXCEPT !.vehicleId = v, !.toPincode = p, !.startTime = Iso(t)] :
        v \in {"v1", "v2"}, p \in {P110025, P110002}, t \in 1..MaxStart }

\* ------------------------------------------------------------------- Init
\* the fleet the database initialisation script inserts
SampleVehicles ==
    [v \in {"v1", "v2", "v3"} |->
        [name |-> CASE v = "v1" -> <<"T", "a", "t", "a">>
                    [] v = "v2" -> <<"M", "a", "h", "i", "n", "d", "r", "a">>
                    [] v = "v3" -> <<"A", "s", "h", "o", "k">>,
         capacityKg |-> CASE v = "v1" -> 1000 [] v = "v2" -> 1500 [] v = "v3" -> 2000,
         tyres |-> IF v = "v3" THEN 6 ELSE 4,
         isActive |-> TRUE]]

IdleReq == [pc |-> "idle", body |-> BaseBody, startTime |-> NaN,
            duration |-> 0, endTime |-> NaN, doc |-> {},
            status |-> 0, message |-> "", conflicts |-> {}]

\* fixed is history: no write has reached the store since Vehicle.find answered;
\* first is history: the answer to the same query asked before, if it was
IdleRes == [pc |-> "idle", query |-> BaseQuery, startTime |-> NaN,
            duration |-> 0, endTime |-> NaN, eligible |-> <<>>, i |-> 0,
            available |-> <<>>, status |-> 0, message |-> "", fixed |-> TRUE,
            first |-> {}]

\* no PATCH call has been answered
IdlePatch == [code |-> 0, message |-> "", booking |-> {}]

\* no listing call has been answered
IdleGot == [route |-> "", code |-> 0, out |-> {}]

\* no POST /api/vehicles call has been answered
IdlePost == [code |-> 0, message |-> "", vehicle |-> {}]

\* no function has been applied
IdleCalc == [fn |-> "", args |-> <<>>, out |-> FALSE]

Init ==
    /\ now = 0
    /\ vehicles = SampleVehicles
    /\ bookings = {}
    /\ req = [r \in Requests |-> IdleReq]
    /\ res = IdleRes
    /\ patch = IdlePatch
    /\ calc = IdleCalc
    /\ vpost = IdlePost
    /\ got = IdleGot

\* history: a write that lands while the availability call is between its reads
Touch(changed) ==
    IF changed /\ res.pc = "loop" THEN [res EXCEPT !.fixed = FALSE] ELSE res

\* a call's terminal state: the response, with the locals dropped
Respond(r, code, msg, cs) ==
    req' = [req EXCEPT ![r] = [IdleReq EXCEPT !.pc = "done", !.body = req[r].body,
                                              !.status = code, !.message = msg,
                                              !.conflicts = cs]]

\* ------------------------------------------------- POST /api/bookings
\* lines 15-60: field checks, then Vehicle.findOne is issued
PostBooking(r, body) ==
    /\ req[r].pc = "idle"
    /\ \A q \in Requests : q < r => req[q].pc # "idle"
    /\ LET start == ParseDate(body.startTime)
           tv == validateBookingTime(start, now)
           posted == [req EXCEPT ![r].body = body]
       IN  IF \/ body.vehicleId = "" \/ body.fromPincode = <<>> \/ body.toPincode = <<>>
              \/ body.startTime.k = "none" \/ body.customerId = ""
           THEN req' = [posted EXCEPT ![r].pc = "done", ![r].status = 400,
                            ![r].message = "fields are required"]
           ELSE IF ~ObjectIdIsValid(body.vehicleId)
           THEN req' = [posted EXCEPT ![r].pc = "done", ![r].status = 400,
                            ![r].message = "Invalid vehicleId format"]
           ELSE IF ~IsPincode(body.fromPincode) \/ ~IsPincode(body.toPincode)
           THEN req' = [posted EXCEPT ![r].pc = "done", ![r].status = 400,
                            ![r].message = "Pincodes must be exactly 6 digits"]
           ELSE IF start = NaN
           THEN req' = [posted EXCEPT ![r].pc = "done", ![r].status = 400,
                            ![r].message = "Invalid startTime format"]
           ELSE IF ~tv.isValid
           THEN req' = [posted EXCEPT ![r].pc = "done", ![r].status = 400,
                            ![r].message = tv.message]
           ELSE req' = [posted EXCEPT ![r].pc = "findVehicle", ![r].startTime = start]
    /\ UNCHANGED <<now, vehicles, bookings, res, patch, calc, vpost, got>>

\* the vehicle lookup without isActive: true
FindVehicleAnyState(r) ==
    /\ req[r].pc = "findVehicle"
    /\ LET id == req[r].body.vehicleId
           d == calculateRideDuration(req[r].body.fromPincode, req[r].body.toPincode)
       IN  IF id \in DOMAIN vehicles
           THEN req' = [req EXCEPT ![r].pc = "findConflicts",
                                   ![r].duration = d,
                                   ![r].endTime = calculateEndTime(req[r].startTime, d)]
           ELSE Respond(r, 404, "Vehicle not found or inactive", {})
    /\ UNCHANGED <<now, vehicles, bookings, res, patch, calc, vpost, got>>

\* Vehicle.findOne({_id, isActive: true}) answers; lines 61-87: duration and end
\* are computed, the transaction starts and Booking.find is issued
FindVehicle(r) ==
    /\ req[r].pc = "findVehicle"
    /\ LET id == req[r].body.vehicleId
           d == calculateRideDuration(req[r].body.fromPincode, req[r].body.toPincode)
       IN  IF id \in DOMAIN vehicles /\ vehicles[id].isActive
           THEN req' = [req EXCEPT ![r].pc = "findConflicts",
                                   ![r].duration = d,
                                   ![r].endTime = calculateEndTime(req[r].startTime, d)]
           ELSE Respond(r, 404, "Vehicle not found or inactive", {})
    /\ UNCHANGED <<now, vehicles, bookings, res, patch, calc, vpost, got>>

\* the overlap check skipped for a vehicle the last availability answer listed
\* for the same window
FindConflictsTrustsResolve(r) ==
    /\ req[r].pc = "findConflicts"
    /\ LET listed == /\ res.pc = "done" /\ res.status = 200
                     /\ req[r].body.vehicleId \in Range(res.available)
                     /\ res.startTime = req[r].startTime
                     /\ res.endTime = req[r].endTime
           found == IF listed THEN {}
                    ELSE FindOverlapping(bookings, req[r].body.vehicleId,
                                         req[r].startTime, req[r].endTime)
       IN  IF found # {}
           THEN Respond(r, 409, "Vehicle is already booked for an overlapping time slot",
                        ConflictSummary(found))
           ELSE req' = [req EXCEPT ![r].pc = "save"]
    /\ UNCHANGED <<now, vehicles, bookings, res, patch, calc, vpost, got>>

\* Booking.find(...).session(session) answers from the committed documents;
\* lines 89-116: a conflict aborts and answers 409, otherwise save is issued
FindConflicts(r) ==
    /\ req[r].pc = "findConflicts"
    /\ LET found == FindOverlapping(bookings, req[r].body.vehicleId,
                                    req[r].startTime, req[r].endTime)
       IN  IF found # {}
           THEN Respond(r, 409, "Vehicle is already booked for an overlapping time slot",
                        ConflictSummary(found))
           ELSE req' = [req EXCEPT ![r].pc = "save"]
    /\ UNCHANGED <<now, vehicles, bookings, res, patch, calc, vpost, got>>

\* new Booking({...}) as the route builds it; _id is fresh for each call
NewBooking(r) ==
    [_id |-> r,
     vehicleId |-> req[r].body.vehicleId,
     customerId |-> trim(req[r].body.customerId),
     fromPincode |-> req[r].body.fromPincode,
     toPincode |-> req[r].body.toPincode,
     startTime |-> req[r].startTime,
     endTime |-> req[r].endTime,
     estimatedRideDurationHours |-> req[r].duration,
     status |-> "confirmed",
     createdAt |-> now]

\* booking.save({session}): validation, pre-save hook, insert inside the
\* transaction (private until commit); a validation error aborts and answers 400
Save(r) ==
    /\ req[r].pc = "save"
    /\ IF SchemaValid(NewBooking(r), now)
       THEN req' = [req EXCEPT ![r].pc = "populate", ![r].doc = {PreSave(NewBooking(r))}]
       ELSE Respond(r, 400, "Booking validation failed", {})
    /\ UNCHANGED <<now, vehicles, bookings, res, patch, calc, vpost, got>>

\* the route answering 201 once populate has answered, before the transaction
\* is committed, and the commit then failing
PopulateAnswersFirst(r) ==
    /\ req[r].pc = "populate"
    /\ req' = [req EXCEPT ![r].pc = "done", ![r].doc = {}, ![r].status = 201,
                          ![r].message = "Booking created successfully"]
    /\ UNCHANGED <<now, vehicles, bookings, res, patch, calc, vpost, got>>

\* savedBooking.populate('vehicleId', ...) answers; commitTransaction is issued
Populate(r) ==
    /\ req[r].pc = "populate"
    /\ req' = [req EXCEPT ![r].pc = "commit"]
    /\ UNCHANGED <<now, vehicles, bookings, res, patch, calc, vpost, got>>

\* a commit that looks the vehicle up again and answers 404 for a retired one
CommitTransactionRechecks(r) ==
    /\ req[r].pc = "commit"
    /\ IF vehicles[req[r].body.vehicleId].isActive
       THEN /\ bookings' = bookings \cup req[r].doc
            /\ req' = [req EXCEPT ![r].pc = "done", ![r].doc = {}, ![r].status = 201,
                                  ![r].message = "Booking created successfully"]
            /\ res' = Touch(TRUE)
       ELSE /\ Respond(r, 404, "Vehicle not found or inactive", {})
            /\ UNCHANGED <<bookings, res, got>>
    /\ UNCHANGED <<now, vehicles, patch, calc, vpost, got>>

\* session.commitTransaction(): the insert becomes visible; 201 is answered
CommitTransaction(r) ==
    /\ req[r].pc = "commit"
    /\ bookings' = bookings \cup req[r].doc
    /\ req' = [req EXCEPT ![r].pc = "done", ![r].doc = {}, ![r].status = 201,
                          ![r].message = "Booking created successfully"]
    /\ res' = Touch(TRUE)
    /\ UNCHANGED <<now, vehicles, patch, calc, vpost, got>>

\* a failure path that answers 500 without aborting the transaction, whose
\* insert the session then commits
StorageErrorNoAbort(r) ==
    /\ req[r].pc \in {"findVehicle", "findConflicts", "save", "populate", "commit"}
    /\ bookings' = bookings \cup req[r].doc
    /\ Respond(r, 500, "Failed to create booking", {})
    /\ res' = Touch(req[r].doc # {})
    /\ UNCHANGED <<now, vehicles, patch, calc, vpost, got>>

\* an awaited storage call rejects: inside the transaction the catch block
\* aborts it; the outer catch answers 500
StorageError(r) ==
    /\ req[r].pc \in {"findVehicle", "findConflicts", "save", "populate", "commit"}
    /\ Respond(r, 500, "Failed to create booking", {})
    /\ UNCHANGED <<now, vehicles, bookings, res, patch, calc, vpost, got>>

\* ------------------------------------------------- POST /api/vehicles
\* String.prototype.trim on a sequence of characters
RECURSIVE trimName(_)
trimName(s) ==
    IF s = <<>> THEN s
    ELSE IF Head(s) = " " THEN trimName(Tail(s))
    ELSE IF s[Len(s)] = " " THEN trimName(SubSeq(s, 1, Len(s) - 1))
    ELSE s

\* the ids the store gives to the vehicles it inserts
NewVehicleIds == <<"v4", "v5">>

\* the request bodies: name, capacityKg and tyres, each present or not, of the
\* right type or not
Str(s) == [k |-> "str", s |-> s]

NoStr == [k |-> "none", s |-> <<>>]

NumStr == [k |-> "num", s |-> <<>>]

LongName == [i \in 1..101 |-> "x"]

VehicleBodies ==
    { [name |-> n, capacityKg |-> c, tyres |-> t] :
        n \in {NoStr, NumStr, Str(<<>>), Str(<<" ">>), Str(<<"T">>),
               Str(<<" ", "T", " ">>), Str(LongName)},
        c \in {NoNum, BadNum, Num(0), Num(0 - 5), Num(1), Num(1000), Num(50000),
               Num(50001)},
        t \in {NoNum, BadNum, Num(0), Num(1), Num(2), Num(18), Num(19)} }

\* the schema without the upper limit on tyres
VehicleSchemaValidNoTyreMax(doc) ==
    /\ doc.name # <<>> /\ Len(doc.name) <= 100
    /\ doc.capacityKg >= 1 /\ doc.capacityKg <= 50000
    /\ doc.tyres >= 2

\* vehicleSchema: name required (after trim) and at most 100 characters,
\* capacityKg in 1 .. 50000, tyres in 2 .. 18
VehicleSchemaValid(doc) ==
    /\ doc.name # <<>> /\ Len(doc.name) <= 100
    /\ doc.capacityKg >= 1 /\ doc.capacityKg <= 50000
    /\ doc.tyres >= 2 /\ doc.tyres <= 18

\* the vehicles after the store has inserted doc under id
Inserted(coll, id, doc) ==
    [v \in DOMAIN coll \cup {id} |-> IF v = id THEN doc ELSE coll[v]]

\* lines 12-62: the required-field and type checks, new Vehicle({...}) and
\* vehicle.save(): a schema violation answers 400, otherwise the document is
\* inserted, active by default, and 201 is answered
AddVehicle(body) ==
    /\ \E i \in 1..Len(NewVehicleIds) : NewVehicleIds[i] \notin DOMAIN vehicles
    /\ LET id == NewVehicleIds[CHOOSE i \in 1..Len(NewVehicleIds) :
                                 /\ NewVehicleIds[i] \notin DOMAIN vehicles
                                 /\ \A j \in 1..(i - 1) :
                                      NewVehicleIds[j] \in DOMAIN vehicles]
           doc == [name |-> trimName(body.name.s),
                   capacityKg |-> body.capacityKg.n,
                   tyres |-> body.tyres.n,
                   isActive |-> TRUE]
       IN  IF \/ body.name.k = "none" \/ (body.name.k = "str" /\ body.name.s = <<>>)
              \/ body.capacityKg.k = "none"
              \/ (body.capacityKg.k = "num" /\ body.capacityKg.n = 0)
              \/ body.tyres.k = "none"
              \/ (body.tyres.k = "num" /\ body.tyres.n = 0)
           THEN /\ vpost' = [code |-> 400, message |-> "required fields",
                             vehicle |-> {}]
                /\ vehicles' = vehicles
           ELSE IF \/ body.name.k # "str" \/ body.capacityKg.k # "num"
                   \/ body.tyres.k # "num"
           THEN /\ vpost' = [code |-> 400, message |-> "Invalid data types",
                             vehicle |-> {}]
                /\ vehicles' = vehicles
           ELSE IF ~VehicleSchemaValid(doc)
           THEN /\ vpost' = [code |-> 400, message |-> "Vehicle validation failed",
                             vehicle |-> {}]
                /\ vehicles' = vehicles
           ELSE /\ vpost' = [code |-> 201, message |-> "Vehicle added successfully",
                             vehicle |-> {doc}]
                /\ vehicles' = Inserted(vehicles, id, doc)
    /\ res' = Touch(vehicles' # vehicles)
    /\ UNCHANGED <<now, bookings, req, patch, calc, got>>

\* vehicle.save() rejects for a reason other than validation: the catch block
\* answers 500 and nothing is stored
AddVehicleError(body) ==
    /\ body.name.k = "str" /\ body.name.s # <<>>
    /\ body.capacityKg.k = "num" /\ body.capacityKg.n # 0
    /\ body.tyres.k = "num" /\ body.tyres.n # 0
    /\ vpost' = [code |-> 500, message |-> "Failed to add vehicle", vehicle |-> {}]
    /\ UNCHANGED <<now, vehicles, bookings, req, res, patch, calc, got>>

\* ------------------------------------------ GET /api/vehicles/available
\* the order in which Vehicle.find returns the documents
VehicleOrder == <<"v1", "v2", "v3", "v4", "v5">>

\* Vehicle.find({capacityKg: {$gte: capacity}, isActive: true})
EligibleVehicles(coll, capacity) ==
    SelectSeq(VehicleOrder,
              LAMBDA v : /\ v \in DOMAIN coll
                         /\ coll[v].capacityKg >= capacity
                         /\ coll[v].isActive)

\* the overlap filter answered by a replica that lags: it holds the documents
\* created before the current instant
OverlappingBookingsLagging(coll, vehicleId, startTime, endTime) ==
    { b \in coll : /\ b.vehicleId = vehicleId
                   /\ b.status \in ActiveStatuses
                   /\ b.startTime < endTime
                   /\ b.endTime > startTime
                   /\ b.createdAt < now }

\* the overlap filter of the availability route without the status clause
OverlappingBookingsAnyStatus(coll, vehicleId, startTime, endTime) ==
    { b \in coll : /\ b.vehicleId = vehicleId
                   /\ b.startTime < endTime
                   /\ b.endTime > startTime }

\* the overlap filter of the availability route with closed bounds
OverlappingBookingsClosed(coll, vehicleId, startTime, endTime) ==
    { b \in coll : /\ b.vehicleId = vehicleId
                   /\ b.status \in ActiveStatuses
                   /\ b.startTime <= endTime
                   /\ b.endTime >= startTime }

\* Booking.find({vehicleId: vehicle._id, status: {$in: [...]},
\*               startTime: {$lt: requestedEndTime}, endTime: {$gt: requestedStartTime}})
OverlappingBookings(coll, vehicleId, startTime, endTime) ==
    { b \in coll : /\ b.vehicleId = vehicleId
                   /\ b.status \in ActiveStatuses
                   /\ b.startTime < endTime
                   /\ b.endTime > startTime }

\* the availability route applying validateBookingTime as the commit does
AskedWithinYear(q, from) ==
    LET capacity == parseFloat(q.capacityRequired)
        start == ParseDate(q.startTime)
        d == calculateRideDuration(q.fromPincode, q.toPincode)
        asked == [from EXCEPT !.query = q]
    IN  IF \/ q.capacityRequired.k = "none" \/ q.fromPincode = <<>>
           \/ q.toPincode = <<>> \/ q.startTime.k = "none"
        THEN [asked EXCEPT !.pc = "done", !.status = 400,
                           !.message = "parameters are required"]
        ELSE IF capacity = NaN \/ capacity <= 0
        THEN [asked EXCEPT !.pc = "done", !.status = 400,
                           !.message = "capacityRequired must be a positive number"]
        ELSE IF ~IsPincode(q.fromPincode) \/ ~IsPincode(q.toPincode)
        THEN [asked EXCEPT !.pc = "done", !.status = 400,
                           !.message = "Pincodes must be exactly 6 digits"]
        ELSE IF start = NaN
        THEN [asked EXCEPT !.pc = "done", !.status = 400,
                           !.message = "Invalid startTime format"]
        ELSE IF ~validateBookingTime(start, now).isValid
        THEN [asked EXCEPT !.pc = "done", !.status = 400,
                           !.message = validateBookingTime(start, now).message]
        ELSE [asked EXCEPT !.pc = "findVehicles", !.startTime = start,
                           !.duration = d, !.endTime = calculateEndTime(start, d)]

\* lines 70-121: parameter checks, duration and end, then Vehicle.find is
\* issued; the call's record after this step, the call starting from `from`
Asked(q, from) ==
    LET capacity == parseFloat(q.capacityRequired)
        start == ParseDate(q.startTime)
        d == calculateRideDuration(q.fromPincode, q.toPincode)
        asked == [from EXCEPT !.query = q]
    IN  IF \/ q.capacityRequired.k = "none" \/ q.fromPincode = <<>>
           \/ q.toPincode = <<>> \/ q.startTime.k = "none"
        THEN [asked EXCEPT !.pc = "done", !.status = 400,
                           !.message = "parameters are required"]
        ELSE IF capacity = NaN \/ capacity <= 0
        THEN [asked EXCEPT !.pc = "done", !.status = 400,
                           !.message = "capacityRequired must be a positive number"]
        ELSE IF ~IsPincode(q.fromPincode) \/ ~IsPincode(q.toPincode)
        THEN [asked EXCEPT !.pc = "done", !.status = 400,
                           !.message = "Pincodes must be exactly 6 digits"]
        ELSE IF start = NaN
        THEN [asked EXCEPT !.pc = "done", !.status = 400,
                           !.message = "Invalid startTime format"]
        ELSE IF start <= now
        THEN [asked EXCEPT !.pc = "done", !.status = 400,
                           !.message = "Start time must be in the future"]
        ELSE [asked EXCEPT !.pc = "findVehicles", !.startTime = start,
                           !.duration = d, !.endTime = calculateEndTime(start, d)]

\* GET /api/vehicles/available?... arrives
GetAvailable(q) ==
    /\ res.pc = "idle"
    /\ res' = Asked(q, res)
    /\ UNCHANGED <<now, vehicles, bookings, req, patch, calc, vpost, got>>

\* the same request arrives a second time, after the first was answered
GetAvailableAgain ==
    /\ res.pc = "done"
    /\ res.first = {}
    /\ res' = Asked(res.query,
                    [IdleRes EXCEPT !.first = {[status |-> res.status,
                                                duration |-> res.duration,
                                                available |-> res.available]}])
    /\ UNCHANGED <<now, vehicles, bookings, req, patch, calc, vpost, got>>

\* the route answering 404 when no vehicle qualifies
FindVehiclesNotFound ==
    /\ res.pc = "findVehicles"
    /\ LET found == EligibleVehicles(vehicles, parseFloat(res.query.capacityRequired))
       IN  IF Len(found) = 0
           THEN res' = [res EXCEPT !.pc = "done", !.status = 404,
                            !.message = "No vehicles found with sufficient capacity"]
           ELSE res' = [res EXCEPT !.pc = "loop", !.eligible = found, !.i = 1]
    /\ UNCHANGED <<now, vehicles, bookings, req, patch, calc, vpost, got>>

\* Vehicle.find answers; lines 123-152: none eligible answers 200 with an empty
\* list, otherwise Booking.find is issued for the first vehicle
FindVehicles ==
    /\ res.pc = "findVehicles"
    /\ LET found == EligibleVehicles(vehicles, parseFloat(res.query.capacityRequired))
       IN  IF Len(found) = 0
           THEN res' = [res EXCEPT !.pc = "done", !.status = 200,
                            !.message = "No vehicles found with sufficient capacity"]
           ELSE res' = [res EXCEPT !.pc = "loop", !.eligible = found, !.i = 1]
    /\ UNCHANGED <<now, vehicles, bookings, req, patch, calc, vpost, got>>

\* the loop placing a hold on every vehicle it lists: a reservation of the
\* requested window, in-progress, under the id 0
CheckVehicleHolds ==
    /\ res.pc = "loop"
    /\ LET v == res.eligible[res.i]
           overlapping == OverlappingBookings(bookings, v, res.startTime, res.endTime)
           list == IF overlapping = {} THEN Append(res.available, v) ELSE res.available
           looked == [res EXCEPT !.available = list]
           hold == [_id |-> 0, vehicleId |-> v, customerId |-> "hold",
                    fromPincode |-> res.query.fromPincode,
                    toPincode |-> res.query.toPincode,
                    startTime |-> res.startTime, endTime |-> res.endTime,
                    estimatedRideDurationHours |-> res.duration,
                    status |-> "in-progress", createdAt |-> now]
       IN  /\ IF res.i < Len(res.eligible)
              THEN res' = [looked EXCEPT !.i = res.i + 1]
              ELSE res' = [looked EXCEPT !.pc = "done", !.i = 0, !.eligible = <<>>,
                                !.status = 200, !.message = "Found available vehicles"]
           /\ bookings' = IF overlapping = {} THEN bookings \cup {hold} ELSE bookings
    /\ UNCHANGED <<now, vehicles, req, patch, calc, vpost, got>>

\* Booking.find answers for eligible[i]; lines 155-179: the vehicle is pushed
\* if nothing overlaps, then the next find is issued or 200 is answered
CheckVehicle ==
    /\ res.pc = "loop"
    /\ LET v == res.eligible[res.i]
           overlapping == OverlappingBookings(bookings, v, res.startTime, res.endTime)
           list == IF overlapping = {} THEN Append(res.available, v) ELSE res.available
           looked == [res EXCEPT !.available = list]
       IN  IF res.i < Len(res.eligible)
           THEN res' = [looked EXCEPT !.i = res.i + 1]
           ELSE res' = [looked EXCEPT !.pc = "done", !.i = 0, !.eligible = <<>>,
                             !.status = 200, !.message = "Found available vehicles"]
    /\ UNCHANGED <<now, vehicles, bookings, req, patch, calc, vpost, got>>

\* Vehicle.find or Booking.find rejects: the catch block answers 500
ResolveError ==
    /\ res.pc \in {"findVehicles", "loop"}
    /\ res' = [IdleRes EXCEPT !.pc = "done", !.query = res.query, !.status = 500,
                              !.message = "Failed to find available vehicles",
                              !.first = res.first]
    /\ UNCHANGED <<now, vehicles, bookings, req, patch, calc, vpost, got>>

\* ------------------------------------- PATCH /api/bookings/:id/status
\* a booking id that is no ObjectId
BadId == 0 - 1

\* mongoose.Types.ObjectId.isValid, on the booking ids the model submits
BookingIdIsValid(id) == id # BadId

\* Booking.findByIdAndUpdate(id, {status}, {new: true}): the collection after
\* the update
SetStatus(coll, id, status) ==
    { IF b._id = id THEN [b EXCEPT !.status = status] ELSE b : b \in coll }

\* the answer of a PATCH call: booking is the updated document, if there is one
Answer(code, msg, doc) == [code |-> code, message |-> msg, booking |-> doc]

\* the handler with a table of allowed transitions: a closed reservation
\* stays closed
UpdateStatusGuarded(id, status) ==
    /\ LET hit == { b \in bookings : b._id = id }
           open == { b \in hit : b.status \in ActiveStatuses \/ b.status = status }
       IN  IF ~BookingIdIsValid(id)
           THEN /\ patch' = Answer(400, "Invalid booking ID format", {})
                /\ bookings' = bookings
           ELSE IF status = "" \/ status \notin Statuses
           THEN /\ patch' = Answer(400, "Invalid status", {})
                /\ bookings' = bookings
           ELSE IF hit = {}
           THEN /\ patch' = Answer(404, "Booking not found", {})
                /\ bookings' = bookings
           ELSE IF open = {}
           THEN /\ patch' = Answer(409, "Invalid transition", {})
                /\ bookings' = bookings
           ELSE /\ bookings' = SetStatus(bookings, id, status)
                /\ patch' = Answer(200, "Booking status updated successfully",
                                   { [b EXCEPT !.status = status] : b \in hit })
    /\ res' = Touch(bookings' # bookings)
    /\ UNCHANGED <<now, vehicles, req, calc, vpost, got>>

\* the handler removing the document when the new status is cancelled
UpdateStatusDeletesCancelled(id, status) ==
    /\ LET hit == { b \in bookings : b._id = id }
       IN  IF ~BookingIdIsValid(id)
           THEN /\ patch' = Answer(400, "Invalid booking ID format", {})
                /\ bookings' = bookings
           ELSE IF status = "" \/ status \notin Statuses
           THEN /\ patch' = Answer(400, "Invalid status", {})
                /\ bookings' = bookings
           ELSE IF hit = {}
           THEN /\ patch' = Answer(404, "Booking not found", {})
                /\ bookings' = bookings
           ELSE /\ bookings' = IF status = "cancelled" THEN bookings \ hit
                                ELSE SetStatus(bookings, id, status)
                /\ patch' = Answer(200, "Booking status updated successfully",
                                   { [b EXCEPT !.status = status] : b \in hit })
    /\ res' = Touch(bookings' # bookings)
    /\ UNCHANGED <<now, vehicles, req, calc, vpost, got>>

\* the handler with upsert: true, which inserts what it does not find
UpdateStatusUpsert(id, status) ==
    /\ LET hit == { b \in bookings : b._id = id }
           blank == [_id |-> id, vehicleId |-> "", customerId |-> "",
                     fromPincode |-> <<>>, toPincode |-> <<>>, startTime |-> NaN,
                     endTime |-> NaN, estimatedRideDurationHours |-> 0,
                     status |-> status, createdAt |-> now]
       IN  IF ~BookingIdIsValid(id)
           THEN /\ patch' = Answer(400, "Invalid booking ID format", {})
                /\ bookings' = bookings
           ELSE IF hit = {}
           THEN /\ bookings' = bookings \cup {blank}
                /\ patch' = Answer(200, "Booking status updated successfully", {blank})
           ELSE /\ bookings' = SetStatus(bookings, id, status)
                /\ patch' = Answer(200, "Booking status updated successfully",
                                   { [b EXCEPT !.status = status] : b \in hit })
    /\ res' = Touch(bookings' # bookings)
    /\ UNCHANGED <<now, vehicles, req, calc, vpost, got>>

\* lines 275-310: the id and the status are checked before any storage access;
\* findByIdAndUpdate sets the status of the document in one storage operation
\* and returns it updated, or null
UpdateStatus(id, status) ==
    /\ LET hit == { b \in bookings : b._id = id }
       IN  IF ~BookingIdIsValid(id)
           THEN /\ patch' = Answer(400, "Invalid booking ID format", {})
                /\ bookings' = bookings
           ELSE IF status = "" \/ status \notin Statuses
           THEN /\ patch' = Answer(400, "Invalid status", {})
                /\ bookings' = bookings
           ELSE IF hit = {}
           THEN /\ patch' = Answer(404, "Booking not found", {})
                /\ bookings' = bookings
           ELSE /\ bookings' = SetStatus(bookings, id, status)
                /\ patch' = Answer(200, "Booking status updated successfully",
                                   { [b EXCEPT !.status = status] : b \in hit })
    /\ res' = Touch(bookings' # bookings)
    /\ UNCHANGED <<now, vehicles, req, calc, vpost, got>>

\* lines 312-318: the update rejects and nothing is written, or the populate
\* that follows it rejects and the status is already written; the catch block
\* answers 500
UpdateStatusError(id, status) ==
    /\ BookingIdIsValid(id)
    /\ status \in Statuses
    /\ \E written \in BOOLEAN :
         bookings' = IF written THEN SetStatus(bookings, id, status) ELSE bookings
    /\ patch' = Answer(500, "Failed to update booking status", {})
    /\ res' = Touch(bookings' # bookings)
    /\ UNCHANGED <<now, vehicles, req, calc, vpost, got>>

\* ------------------------------------------------- the listing routes
\* the query strings of GET /api/bookings: "" and NoDate stand for a
\* parameter that is not sent
ListQueries ==
    [customerId : {"", "c1"}, vehicleId : {"", "bad", "v1"},
     status : {"", "invalid-status", "cancelled"},
     startDate : {NoDate, BadDate, Iso(2)}, endDate : {NoDate, BadDate, Iso(1)}]

\* Booking.find(filter) with the filter lines 161-211 build
FilterBookings(coll, q) ==
    { b \in coll :
        /\ q.customerId # "" => b.customerId = q.customerId
        /\ q.vehicleId # "" => b.vehicleId = q.vehicleId
        /\ q.status # "" => b.status = q.status
        /\ q.startDate.k # "none" => b.startTime >= ParseDate(q.startDate)
        /\ q.endDate.k # "none" => b.startTime <= ParseDate(q.endDate) }

\* the listing that also removes the cancelled reservations it comes across
ListBookingsPurgesCancelled(q) ==
    /\ IF q.vehicleId # "" /\ ~ObjectIdIsValid(q.vehicleId)
       THEN got' = [route |-> "GET /api/bookings", code |-> 400, out |-> {}]
       ELSE IF q.status # "" /\ q.status \notin Statuses
       THEN got' = [route |-> "GET /api/bookings", code |-> 400, out |-> {}]
       ELSE IF q.startDate.k # "none" /\ ParseDate(q.startDate) = NaN
       THEN got' = [route |-> "GET /api/bookings", code |-> 400, out |-> {}]
       ELSE IF q.endDate.k # "none" /\ ParseDate(q.endDate) = NaN
       THEN got' = [route |-> "GET /api/bookings", code |-> 400, out |-> {}]
       ELSE got' = [route |-> "GET /api/bookings", code |-> 200,
                    out |-> FilterBookings(bookings, q)]
    /\ bookings' = { b \in bookings : b.status # "cancelled" }
    /\ res' = Touch(bookings' # bookings)
    /\ UNCHANGED <<now, vehicles, req, patch, calc, vpost>>

\* GET /api/bookings, lines 157-227: the parameters sent are checked in turn,
\* then Booking.find answers (the documents, whatever their order)
ListBookings(q) ==
    /\ IF q.vehicleId # "" /\ ~ObjectIdIsValid(q.vehicleId)
       THEN got' = [route |-> "GET /api/bookings", code |-> 400, out |-> {}]
       ELSE IF q.status # "" /\ q.status \notin Statuses
       THEN got' = [route |-> "GET /api/bookings", code |-> 400, out |-> {}]
       ELSE IF q.startDate.k # "none" /\ ParseDate(q.startDate) = NaN
       THEN got' = [route |-> "GET /api/bookings", code |-> 400, out |-> {}]
       ELSE IF q.endDate.k # "none" /\ ParseDate(q.endDate) = NaN
       THEN got' = [route |-> "GET /api/bookings", code |-> 400, out |-> {}]
       ELSE got' = [route |-> "GET /api/bookings", code |-> 200,
                    out |-> FilterBookings(bookings, q)]
    /\ UNCHANGED <<now, vehicles, bookings, req, res, patch, calc, vpost>>

\* GET /api/bookings/:id, lines 236-268
GetBooking(id) ==
    /\ LET hit == { b \in bookings : b._id = id }
       IN  IF ~BookingIdIsValid(id)
           THEN got' = [route |-> "GET /api/bookings/:id", code |-> 400, out |-> {}]
           ELSE IF hit = {}
           THEN got' = [route |-> "GET /api/bookings/:id", code |-> 404, out |-> {}]
           ELSE got' = [route |-> "GET /api/bookings/:id", code |-> 200, out |-> hit]
    /\ UNCHANGED <<now, vehicles, bookings, req, res, patch, calc, vpost>>

\* GET /api/vehicles, lines 194-211: the active vehicles
ListVehicles ==
    /\ got' = [route |-> "GET /api/vehicles", code |-> 200,
               out |-> { v \in DOMAIN vehicles : vehicles[v].isActive }]
    /\ UNCHANGED <<now, vehicles, bookings, req, res, patch, calc, vpost>>

\* the storage call of a listing route rejects: its catch block answers 500
ListError(route) ==
    /\ got' = [route |-> route, code |-> 500, out |-> {}]
    /\ UNCHANGED <<now, vehicles, bookings, req, res, patch, calc, vpost>>

\* ------------------------------------------------- Booking.create(doc)
\* the documents the test suites save directly, endTime supplied by the caller
DirectId == 3

CreateDocs ==
    { [_id |-> DirectId, vehicleId |-> "v1", customerId |-> "test-customer",
       fromPincode |-> P110001, toPincode |-> P110002,
       startTime |-> t, endTime |-> e, estimatedRideDurationHours |-> d,
       status |-> "confirmed", createdAt |-> 0] :
        t \in 0..MaxStart, e \in 0..(MaxStart + 3), d \in {1, 2} }

\* rides of 0.5 h saved directly for either vehicle
NearDocs ==
    { [d EXCEPT !.vehicleId = v] :
        d \in { c \in CreateDocs : /\ c.estimatedRideDurationHours = 1
                                   /\ c.endTime = c.startTime + 1 },
        v \in {"v1", "v2"} }

\* Booking.create(doc): validation, pre-save hook, insert (no transaction)
BookingCreate(doc) ==
    /\ \A b \in bookings : b._id # doc._id
    /\ SchemaValid(doc, now)
    /\ bookings' = bookings \cup {PreSave([doc EXCEPT !.createdAt = now])}
    /\ res' = Touch(TRUE)
    /\ UNCHANGED <<now, vehicles, req, patch, calc, vpost, got>>

\* ------------------------------------------------ rideCalculations.js
Instants == 0..MaxInstant

\* a caller applies doTimeRangesOverlap to four instants
ApplyOverlap(start1, end1, start2, end2) ==
    /\ calc' = [fn |-> "doTimeRangesOverlap",
                args |-> <<start1, end1, start2, end2>>,
                out |-> doTimeRangesOverlap(start1, end1, start2, end2)]
    /\ UNCHANGED <<now, vehicles, bookings, req, res, patch, vpost, got>>

DigitChar(d) ==
    CASE d = 0 -> "0" [] d = 1 -> "1" [] d = 2 -> "2" [] d = 3 -> "3"
      [] d = 4 -> "4" [] d = 5 -> "5" [] d = 6 -> "6" [] d = 7 -> "7"
      [] d = 8 -> "8" [] d = 9 -> "9"

\* the six-digit pincode that reads as the number n
PinOf(n) == [i \in 1..6 |-> DigitChar((n \div (10 ^ (6 - i))) % 10)]

\* the pincodes of the test suite and their neighbours
Pincodes ==
    { PinOf(110001 + k) : k \in 0..MaxPinGap } \cup {PinOf(400001), PinOf(400051)}

\* a caller applies calculateRideDuration to two valid pincodes
ApplyDuration(fromPincode, toPincode) ==
    /\ calc' = [fn |-> "calculateRideDuration",
                args |-> <<fromPincode, toPincode>>,
                out |-> calculateRideDuration(fromPincode, toPincode)]
    /\ UNCHANGED <<now, vehicles, bookings, req, res, patch, vpost, got>>

\* ------------------------------------------------------------ environment
\* the clock advances
Tick ==
    /\ now < MaxNow
    /\ now' = now + 1
    /\ UNCHANGED <<vehicles, bookings, req, res, patch, calc, vpost, got>>

\* an operator retires a vehicle (isActive: false); no route deletes one
Deactivate(v) ==
    /\ v \in DOMAIN vehicles
    /\ vehicles[v].isActive
    /\ vehicles' = [vehicles EXCEPT ![v].isActive = FALSE]
    /\ res' = Touch(TRUE)
    /\ UNCHANGED <<now, bookings, req, patch, calc, vpost, got>>

\* ---------------------------------------------------------- specifications
\* no POST /api/bookings call is between its first and its last step
Quiet == \A r \in Requests : req[r].pc \in {"idle", "done"}

BookingIds == Requests \cup {0}

StatusInputs == Statuses \cup {"invalid-status", ""}

\* the ledger holds a reservation with this id
Stored(id) == \E b \in bookings : b._id = id

\* the whole booking side: concurrent commits, status updates, the clock and
\* the retirement of vehicle v2
Next ==
    \/ \E r \in Requests, body \in Bodies : PostBooking(r, body)
    \/ \E r \in Requests : FindVehicle(r)
    \/ \E r \in Requests : FindConflicts(r)
    \/ \E r \in Requests : Save(r)
    \/ \E r \in Requests : Populate(r)
    \/ \E r \in Requests : CommitTransaction(r)
    \/ \E r \in Requests : StorageError(r)
    \/ \E id \in Requests, s \in Statuses : Stored(id) /\ UpdateStatus(id, s)
    \/ Tick
    \/ Deactivate("v2")

Spec == Init /\ [][Next]_vars

\* concurrent commits alone: no status update, no retirement
NextCommit ==
    \/ \E r \in Requests, body \in WellShapedBodies : PostBooking(r, body)
    \/ \E r \in Requests : FindVehicle(r)
    \/ \E r \in Requests : FindConflicts(r)
    \/ \E r \in Requests : Save(r)
    \/ \E r \in Requests : Populate(r)
    \/ \E r \in Requests : CommitTransaction(r)
    \/ \E r \in Requests : StorageError(r)
    \/ Tick

SpecCommit == Init /\ [][NextCommit]_vars

\* one operation at a time: a call, once posted, runs to its answer before
\* anything else but the clock moves
NextSeq ==
    \/ \E r \in Requests, body \in Bodies : Quiet /\ PostBooking(r, body)
    \/ \E r \in Requests : FindVehicle(r)
    \/ \E r \in Requests : FindConflicts(r)
    \/ \E r \in Requests : Save(r)
    \/ \E r \in Requests : Populate(r)
    \/ \E r \in Requests : CommitTransaction(r)
    \/ \E r \in Requests : StorageError(r)
    \/ \E id \in Requests, s \in Statuses :
           Quiet /\ Stored(id) /\ UpdateStatus(id, s)
    \/ Tick
    \/ Quiet /\ Deactivate("v2")

SpecSeq == Init /\ [][NextSeq]_vars

\* one availability query, step by step, beside commits that run one at a
\* time, status updates and the retirement of vehicle v3; the clock stands
\* still (what depends on it is checked under Spec)
NextResolve ==
    \/ \E q \in Queries : GetAvailable(q)
    \/ FindVehicles
    \/ CheckVehicle
    \/ ResolveError
    \/ \E r \in Requests, body \in NearBodies : Quiet /\ PostBooking(r, body)
    \/ \E r \in Requests : FindVehicle(r)
    \/ \E r \in Requests : FindConflicts(r)
    \/ \E r \in Requests : Save(r)
    \/ \E r \in Requests : Populate(r)
    \/ \E r \in Requests : CommitTransaction(r)
    \/ \E id \in Requests, s \in {"confirmed", "completed", "cancelled"} :
           Quiet /\ Stored(id) /\ UpdateStatus(id, s)
    \/ Quiet /\ Deactivate("v3")

SpecResolve == Init /\ [][NextResolve]_vars

\* the Booking model as the routes and the test suites use it: commits (one
\* at a time), direct saves, status updates and the clock
NextModel ==
    \/ \E doc \in CreateDocs : BookingCreate(doc)
    \/ \E r \in Requests, body \in NearBodies : Quiet /\ PostBooking(r, body)
    \/ \E r \in Requests : FindVehicle(r)
    \/ \E r \in Requests : FindConflicts(r)
    \/ \E r \in Requests : Save(r)
    \/ \E r \in Requests : Populate(r)
    \/ \E r \in Requests : CommitTransaction(r)
    \/ \E id \in Requests \cup {DirectId}, s \in {"confirmed", "completed"} :
           Stored(id) /\ UpdateStatus(id, s)
    \/ Tick

SpecModel == Init /\ [][NextModel]_vars

\* the ids a PATCH call names: one that is never stored, the ids of the two
\* commits (stored or not yet) and one that is no ObjectId
PatchIds == BookingIds \cup {BadId}

\* status updates with every input, beside commits that run one at a time;
\* the clock stands still
NextStatus ==
    \/ \E id \in PatchIds, s \in StatusInputs : UpdateStatus(id, s)
    \/ \E id \in PatchIds, s \in StatusInputs : UpdateStatusError(id, s)
    \/ \E r \in Requests, body \in NearBodies : Quiet /\ PostBooking(r, body)
    \/ \E r \in Requests : FindVehicle(r)
    \/ \E r \in Requests : FindConflicts(r)
    \/ \E r \in Requests : Save(r)
    \/ \E r \in Requests : Populate(r)
    \/ \E r \in Requests : CommitTransaction(r)

SpecStatus == Init /\ [][NextStatus]_vars

\* the queries asked twice: 0.5 h from every near instant, for 1000 and 1001 kg
RepeatQueries ==
    { [BaseQuery EXCEPT !.capacityRequired = Num(c), !.toPincode = P110025,
                        !.startTime = Iso(t)] :
        c \in {1000, 1001}, t \in 1..MaxStart }

\* the ledger is built by commits, status updates and the retirement of v2;
\* then one query is asked twice while the clock runs and nothing is written
NextRepeat ==
    \/ \E q \in RepeatQueries : Quiet /\ GetAvailable(q)
    \/ GetAvailableAgain
    \/ FindVehicles
    \/ CheckVehicle
    \/ ResolveError
    \/ \E r \in Requests, body \in NearBodies :
           res.pc = "idle" /\ Quiet /\ PostBooking(r, body)
    \/ \E r \in Requests : FindVehicle(r)
    \/ \E r \in Requests : FindConflicts(r)
    \/ \E r \in Requests : Save(r)
    \/ \E r \in Requests : Populate(r)
    \/ \E r \in Requests : CommitTransaction(r)
    \/ \E id \in Requests, s \in {"confirmed", "cancelled"} :
           res.pc = "idle" /\ Quiet /\ Stored(id) /\ UpdateStatus(id, s)
    \/ res.pc = "idle" /\ Quiet /\ Deactivate("v2")
    \/ Tick

SpecRepeat == Init /\ [][NextRepeat]_vars

\* one availability query and one commit with every input, well-shaped or
\* not, and the clock
NextValidate ==
    \/ \E q \in Queries : GetAvailable(q)
    \/ FindVehicles
    \/ CheckVehicle
    \/ \E body \in Bodies : PostBooking(1, body)
    \/ FindVehicle(1)
    \/ FindConflicts(1)
    \/ Save(1)
    \/ Populate(1)
    \/ CommitTransaction(1)
    \/ Tick

SpecValidate == Init /\ [][NextValidate]_vars

\* the overlap predicate applied to every four instants of Instants
NextOverlap ==
    \E s1 \in Instants, e1 \in Instants, s2 \in Instants, e2 \in Instants :
        ApplyOverlap(s1, e1, s2, e2)

SpecOverlap == Init /\ [][NextOverlap]_vars

\* commits run one at a time while status updates arrive at any moment, also
\* between the steps of a commit
NextPatchRace ==
    \/ \E r \in Requests, body \in NearBodies : Quiet /\ PostBooking(r, body)
    \/ \E r \in Requests : FindVehicle(r)
    \/ \E r \in Requests : FindConflicts(r)
    \/ \E r \in Requests : Save(r)
    \/ \E r \in Requests : Populate(r)
    \/ \E r \in Requests : CommitTransaction(r)
    \/ \E id \in Requests, s \in Statuses : Stored(id) /\ UpdateStatus(id, s)

SpecPatchRace == Init /\ [][NextPatchRace]_vars

\* the ledger is filled by commits, one at a time, of rides of 0.5 h and 1 h,
\* and by status updates
NextFilter ==
    \/ \E r \in Requests, body \in FilterBodies : Quiet /\ PostBooking(r, body)
    \/ \E r \in Requests : FindVehicle(r)
    \/ \E r \in Requests : FindConflicts(r)
    \/ \E r \in Requests : Save(r)
    \/ \E r \in Requests : Populate(r)
    \/ \E r \in Requests : CommitTransaction(r)
    \/ \E id \in Requests, s \in Statuses :
           Quiet /\ Stored(id) /\ UpdateStatus(id, s)

SpecFilter == Init /\ [][NextFilter]_vars

\* resolve, then commit: call 1 and its status updates fill the ledger, one
\* availability query is answered, then call 2 commits; a direct save, the
\* retirement of v2, storage failures and the clock come in between
NextAgree ==
    \/ \E body \in NearBodies : res.pc = "idle" /\ PostBooking(1, body)
    \/ \E body \in NearBodies : res.pc = "done" /\ PostBooking(2, body)
    \/ \E r \in Requests : FindVehicle(r)
    \/ \E r \in Requests : FindConflicts(r)
    \/ \E r \in Requests : Save(r)
    \/ \E r \in Requests : Populate(r)
    \/ \E r \in Requests : CommitTransaction(r)
    \/ StorageError(2)
    \/ \E s \in {"confirmed", "cancelled"} :
           res.pc = "idle" /\ Quiet /\ Stored(1) /\ UpdateStatus(1, s)
    \/ \E q \in RepeatQueries : Quiet /\ req[1].pc = "done" /\ GetAvailable(q)
    \/ FindVehicles
    \/ CheckVehicle
    \/ \E doc \in NearDocs : res.pc # "idle" /\ BookingCreate(doc)
    \/ Deactivate("v2")
    \/ Tick

SpecAgree == Init /\ [][NextAgree]_vars

\* every route of the two routers, one call at a time; the clock stands still
NextLedger ==
    \/ \E r \in Requests, body \in NearBodies :
           body.vehicleId = "v1" /\ Quiet /\ PostBooking(r, body)
    \/ \E r \in Requests : FindVehicle(r)
    \/ \E r \in Requests : FindConflicts(r)
    \/ \E r \in Requests : Save(r)
    \/ \E r \in Requests : Populate(r)
    \/ \E r \in Requests : CommitTransaction(r)
    \/ \E r \in Requests : StorageError(r)
    \/ \E id \in Requests, s \in {"confirmed", "cancelled"} :
           Quiet /\ Stored(id) /\ UpdateStatus(id, s)
    \/ \E q \in RepeatQueries :
           /\ q.capacityRequired = Num(1000) /\ q.startTime = Iso(1)
           /\ Quiet /\ got = IdleGot /\ GetAvailable(q)
    \/ FindVehicles
    \/ CheckVehicle
    \/ \E body \in VehicleBodies :
           /\ body.name = Str(<<"T">>) /\ body.capacityKg \in {Num(0), Num(1000)}
           /\ body.tyres = Num(2)
           /\ Quiet /\ res.pc = "idle" /\ AddVehicle(body)
    \/ \E q \in ListQueries : Quiet /\ res.pc = "idle" /\ ListBookings(q)
    \/ \E id \in PatchIds : Quiet /\ res.pc = "idle" /\ GetBooking(id)
    \/ Quiet /\ res.pc = "idle" /\ ListVehicles
    \/ \E route \in {"GET /api/bookings", "GET /api/bookings/:id", "GET /api/vehicles"} :
           Quiet /\ res.pc = "idle" /\ ListError(route)

SpecLedger == Init /\ [][NextLedger]_vars

\* vehicles are added to the fleet, with every body
NextVehicles ==
    \/ \E body \in VehicleBodies : AddVehicle(body)
    \/ \E body \in VehicleBodies : AddVehicleError(body)

SpecVehicles == Init /\ [][NextVehicles]_vars

\* the duration estimate applied to every pair of Pincodes
NextDuration ==
    \E fromPincode \in Pincodes, toPincode \in Pincodes :
        ApplyDuration(fromPincode, toPincode)

SpecDuration == Init /\ [][NextDuration]_vars

\* ------------------------------------------------------------------ claims
\* the window a body asks for: [start, start + estimateDuration(origin, destination))
BodyStart(body) == body.startTime.t

BodyEnd(body) ==
    BodyStart(body) + calculateRideDuration(body.fromPincode, body.toPincode)

\* the reservations of vehicle v that occupy it and overlap [s, e), half-open
Occupying(coll, v, s, e) ==
    { b \in coll : /\ b.vehicleId = v
                   /\ b.status \in ActiveStatuses
                   /\ doTimeRangesOverlap(s, e, b.startTime, b.endTime) }

DoubleBooked(b1, b2) ==
    /\ b1 # b2
    /\ b1.vehicleId = b2.vehicleId
    /\ b1.status \in ActiveStatuses
    /\ b2.status \in ActiveStatuses
    /\ b1.startTime < b2.endTime
    /\ b2.startTime < b1.endTime

\* call r takes a step
Steps(r) == req'[r] # req[r]

\* call r answers in this step
Answers(r) == req[r].pc # "done" /\ req'[r].pc = "done"

\* C1: under any interleaving of concurrent commits, no two reservations of
\* one vehicle with status confirmed or in-progress overlap (half-open rule).
C1_NoDoubleBooking ==
    \A b1 \in bookings, b2 \in bookings : ~DoubleBooked(b1, b2)

\* C2: of two commits for the same active vehicle with overlapping windows
\* and valid inputs, exactly one answers success and the other ConflictError,
\* in every interleaving (calls that ended in another outcome are left out).
C2_ExactlyOneWinner ==
    \A r1 \in Requests, r2 \in Requests :
        ( /\ r1 # r2
          /\ req[r1].pc = "done" /\ req[r2].pc = "done"
          /\ req[r1].status \in {201, 409} /\ req[r2].status \in {201, 409}
          /\ req[r1].body.vehicleId = req[r2].body.vehicleId
          /\ doTimeRangesOverlap(BodyStart(req[r1].body), BodyEnd(req[r1].body),
                                 BodyStart(req[r2].body), BodyEnd(req[r2].body)) )
        => ( (req[r1].status = 201) # (req[r2].status = 201) )

\* C3: a commit that ends in a failure (400, 404, 409 or 500, also one raised
\* inside the transaction after the overlap check) adds, removes and modifies
\* no reservation: the answering step leaves the ledger as it is, and no
\* reservation of a failed call is ever in the ledger.
C3_FailedCommitLeavesLedger ==
    [][ \A r \in Requests :
          /\ (Answers(r) /\ req'[r].status # 201) => bookings' = bookings
          /\ (req'[r].pc = "done" /\ req'[r].status # 201)
                => \A b \in bookings' : b._id # r ]_vars

C3_Witness ==
    \E r \in Requests, w \in Requests :
        /\ req[r].pc = "done" /\ req[r].message = "Booking validation failed"
        /\ req[w].status = 201
        /\ \E b \in bookings : b._id = w
        /\ Cardinality(bookings) = 1

\* C4: the overlap check inside the transaction answers ConflictError exactly
\* when some reservation of the vehicle with status confirmed or in-progress
\* overlaps the requested window at that moment; the list it returns is that
\* set (id, start, end, route), it is not empty, and nothing is inserted.
C4_ConflictListIsTheOverlapSet ==
    [][ \A r \in Requests :
          /\ (req[r].pc = "findConflicts" /\ Steps(r) /\ req'[r].status # 500)
                => LET body == req[r].body
                       found == Occupying(bookings, body.vehicleId,
                                          BodyStart(body), BodyEnd(body))
                   IN  IF found # {}
                       THEN /\ req'[r].status = 409
                            /\ req'[r].conflicts =
                                 { [id |-> b._id, startTime |-> b.startTime,
                                    endTime |-> b.endTime,
                                    route |-> <<b.fromPincode, b.toPincode>>] :
                                   b \in found }
                            /\ bookings' = bookings
                       ELSE req'[r].pc = "save"
          /\ (req[r].status # 409 /\ req'[r].status = 409)
                => req[r].pc = "findConflicts" /\ req'[r].conflicts # {} ]_vars

C4_Witness ==
    \E r \in Requests, w \in Requests :
        /\ req[r].pc = "done" /\ req[r].status = 409
        /\ req[w].pc = "done" /\ req[w].status = 201
        /\ \E c \in req[r].conflicts : c.id = w
        /\ \A b \in bookings : b._id = w

\* C5: a commit that runs alone, with a well-formed body and past the lookup
\* of an existing active vehicle, succeeds if and only if the vehicle has no
\* reservation with status confirmed or in-progress overlapping
\* [start, start + duration); on success the ledger gains exactly one
\* reservation, with that vehicle, requester, route, start, end = start +
\* duration and status confirmed; on conflict it gains none.  The other
\* outcomes are a storage failure (500) and a start that is no longer in the
\* future when the document is saved (400); both leave the ledger alone.
C5_SequentialCommit ==
    [][ \A r \in Requests :
          ( /\ req[r].pc \in {"findConflicts", "save", "populate", "commit"}
            /\ req[r].body \in WellShapedBodies
            /\ Answers(r) )
          => LET body == req[r].body
                 free == Occupying(bookings, body.vehicleId,
                                   BodyStart(body), BodyEnd(body)) = {}
             IN  /\ req'[r].status \in {201, 409, 400, 500}
                 /\ req'[r].status = 201 =>
                      /\ free
                      /\ \E d \in bookings' :
                           /\ d \notin bookings
                           /\ bookings' = bookings \cup {d}
                           /\ d.vehicleId = body.vehicleId
                           /\ d.customerId = body.customerId
                           /\ d.fromPincode = body.fromPincode
                           /\ d.toPincode = body.toPincode
                           /\ d.startTime = BodyStart(body)
                           /\ d.endTime = BodyEnd(body)
                           /\ d.status = "confirmed"
                 /\ req'[r].status = 409 => ~free /\ bookings' = bookings
                 /\ req'[r].status = 400 =>
                      free /\ BodyStart(body) <= now /\ bookings' = bookings
                 /\ req'[r].status = 500 => bookings' = bookings ]_vars

\* a window that starts exactly at the end of a confirmed reservation of the
\* same vehicle was accepted
C5_Witness ==
    \E b1 \in bookings, b2 \in bookings :
        /\ b1.vehicleId = b2.vehicleId
        /\ b1.endTime = b2.startTime
        /\ b1.status = "confirmed" /\ b2.status = "confirmed"
        /\ req[b1._id].status = 201 /\ req[b2._id].status = 201

\* C8: the request validation lets a start time through if and only if
\* now < start <= now + 365 days; a start at or before now is answered 400
\* 'Start time must be in the future', one later than now + 365 days 400
\* 'Cannot book more than 1 year in advance', and nothing is inserted; every
\* reservation in the ledger starts strictly after its creation instant and
\* at most one year after it.
C8_StartTimeWindow ==
    [][ /\ \A r \in Requests :
             ( /\ req[r].pc = "idle" /\ Steps(r)
               /\ req'[r].body.startTime.k = "iso"
               /\ req'[r].message \notin {"fields are required",
                                          "Invalid vehicleId format",
                                          "Pincodes must be exactly 6 digits"} )
             => LET start == BodyStart(req'[r].body)
                IN  /\ bookings' = bookings
                    /\ start <= now =>
                         /\ req'[r].status = 400
                         /\ req'[r].message = "Start time must be in the future"
                    /\ start > now + 365 * 24 * 2 =>
                         /\ req'[r].status = 400
                         /\ req'[r].message = "Cannot book more than 1 year in advance"
                    /\ (now < start /\ start <= now + 365 * 24 * 2) =>
                         req'[r].pc = "findVehicle"
        /\ \A b \in bookings' :
             /\ b.createdAt < b.startTime
             /\ b.startTime <= b.createdAt + 365 * 24 * 2 ]_vars

\* one call was refused as too far ahead and another, later, was accepted
\* with the same start, exactly one year ahead
C8_Witness ==
    \E r \in Requests, b \in bookings :
        /\ req[r].message = "Cannot book more than 1 year in advance"
        /\ b.startTime = BodyStart(req[r].body)
        /\ b.startTime = b.createdAt + 365 * 24 * 2

\* C9: when the vehicle lookup finds no vehicle with that id, or finds it
\* inactive, the commit answers NotFoundError (InternalError if the lookup
\* itself fails) and inserts nothing, whatever the ledger holds.
C9_NoVehicleNoBooking ==
    [][ \A r \in Requests :
          /\ ( /\ req[r].pc = "findVehicle" /\ Steps(r)
               /\ \/ req[r].body.vehicleId \notin DOMAIN vehicles
                  \/ ~vehicles[req[r].body.vehicleId].isActive )
             => /\ req'[r].pc = "done"
                /\ req'[r].status \in {404, 500}
                /\ bookings' = bookings
          /\ (req'[r].pc = "done" /\ req'[r].status = 404)
                => \A b \in bookings' : b._id # r ]_vars

\* a dangling id and a retired vehicle were both answered 404 with every
\* window free
C9_Witness ==
    \E r1 \in Requests, r2 \in Requests :
        /\ req[r1].body.vehicleId = "v9" /\ req[r1].status = 404
        /\ req[r2].body.vehicleId = "v2" /\ req[r2].status = 404
        /\ ~vehicles["v2"].isActive
        /\ bookings = {}

\* the availability answer lists the vehicle of call r for the window of call r
Resolved(r) ==
    /\ res.pc = "done" /\ res.status = 200
    /\ req[r].body.vehicleId \in Range(res.available)
    /\ res.query.fromPincode = req[r].body.fromPincode
    /\ res.query.toPincode = req[r].body.toPincode
    /\ res.query.startTime = req[r].body.startTime

\* C6: the commit checks overlap when it inserts and not when availability
\* was read: if resolve listed vehicle V for a window and the ledger now holds
\* an overlapping reservation of V made by another commit that succeeded, the
\* commit for V and that window answers ConflictError and inserts nothing.
C6_CommitRechecksOverlap ==
    [][ \A r \in Requests :
          ( /\ req[r].pc = "findConflicts" /\ Steps(r)
            /\ Resolved(r)
            /\ \E b \in Occupying(bookings, req[r].body.vehicleId,
                                  BodyStart(req[r].body), BodyEnd(req[r].body)) :
                 b._id # r /\ req[b._id].status = 201 )
          => /\ req'[r].pc = "done"
             /\ req'[r].status = 409
             /\ bookings' = bookings ]_vars

C6_Witness ==
    \E r \in Requests, w \in Requests :
        /\ r # w
        /\ Resolved(r)
        /\ req[w].pc = "done" /\ req[w].status = 201
        /\ req[r].pc = "done" /\ req[r].status = 409
        /\ \E c \in req[r].conflicts : c.id = w

\* C7: every reservation in the ledger has endTime = startTime + duration
\* (duration hours * 3600 s), whether a commit created it or it was saved
\* directly with an endTime of the caller's choosing, and status updates keep it.
C7_EndTimeIsDerived ==
    \A b \in bookings : b.endTime = b.startTime + b.estimatedRideDurationHours

\* the ledger holds a directly saved reservation and one made by a commit,
\* and a status was updated
C7_Witness ==
    /\ \E b \in bookings : b._id = DirectId /\ b.status = "completed"
    /\ \E b \in bookings : b._id \in Requests /\ req[b._id].status = 201

\* C10: an availability answer computed while nothing was written to the
\* store lists a vehicle if and only if it is active, its capacity is at
\* least the requested one, and none of its reservations with status
\* confirmed or in-progress overlaps [start, start + estimateDuration); the
\* answer carries that duration.
C10_AvailableIffFree ==
    [][ ( /\ res.pc \in {"findVehicles", "loop"}
          /\ res'.pc = "done" /\ res'.status = 200 /\ res'.fixed )
        => LET q == res.query
               d == calculateRideDuration(q.fromPincode, q.toPincode)
           IN  /\ res'.duration = d
               /\ Range(res'.available) \subseteq DOMAIN vehicles
               /\ \A v \in DOMAIN vehicles :
                    v \in Range(res'.available)
                    <=> /\ vehicles[v].isActive
                        /\ vehicles[v].capacityKg >= q.capacityRequired.n
                        /\ Occupying(bookings, v, q.startTime.t, q.startTime.t + d) = {}
      ]_vars

\* v1 is listed although a confirmed reservation of v1 ends exactly at the
\* requested start and a cancelled one overlaps the requested window
C10_Witness ==
    /\ res.pc = "done" /\ res.status = 200 /\ res.fixed
    /\ "v1" \in Range(res.available)
    /\ \E b \in bookings :
         /\ b.vehicleId = "v1" /\ b.status = "confirmed"
         /\ b.endTime = res.startTime
    /\ \E b \in bookings :
         /\ b.vehicleId = "v1" /\ b.status \in {"cancelled", "completed"}
         /\ doTimeRangesOverlap(res.startTime, res.endTime, b.startTime, b.endTime)

\* C15: status transitions are unrestricted.  For every reservation in the
\* ledger, whatever its status s, and every requested status t of the four
\* (t = s and backward moves such as completed to confirmed included), the
\* status update answers 200 with the reservation carrying status t and the
\* ledger holds it with status t, also when that makes it overlap another
\* active reservation of its vehicle; the only other answer is 500, when the
\* storage call itself fails.
C15_AnyStatusToAnyStatus ==
    [][ \A id \in PatchIds, t \in Statuses :
          ( /\ UpdateStatus(id, t) \/ UpdateStatusError(id, t)
            /\ Stored(id) )
          => LET b == CHOOSE x \in bookings : x._id = id
                 updated == [b EXCEPT !.status = t]
             IN  /\ patch'.code \in {200, 500}
                 /\ patch'.code = 200 =>
                      /\ patch'.booking = {updated}
                      /\ updated \in bookings'
                      /\ bookings' = (bookings \ {b}) \cup {updated} ]_vars

\* a cancelled reservation went back to confirmed although another confirmed
\* reservation of the same vehicle had taken its window
C15_Witness ==
    /\ patch.code = 200
    /\ \E b \in patch.booking, o \in bookings :
         /\ b \in bookings
         /\ b.status = "confirmed"
         /\ DoubleBooked(b, o)

\* C16: a status update that names a well-formed id no reservation carries
\* answers NotFoundError, and one whose status is missing or outside the four
\* values answers ValidationError (InternalError if the storage call itself
\* fails); in both cases the ledger is left as it is, and every reservation's
\* status is one of the four values in every reachable state.
C16_UnknownIdOrStatusRefused ==
    [][ /\ \A id \in PatchIds, t \in StatusInputs :
             (UpdateStatus(id, t) \/ UpdateStatusError(id, t))
             => /\ (BookingIdIsValid(id) /\ t \in Statuses /\ ~Stored(id))
                      => patch'.code \in {404, 500} /\ bookings' = bookings
                /\ (t \notin Statuses)
                      => patch'.code = 400 /\ bookings' = bookings
        /\ \A b \in bookings' : b.status \in Statuses ]_vars

\* an unknown id was answered 404 while the ledger holds a reservation that an
\* earlier update had moved out of confirmed
C16_Witness ==
    /\ patch.code = 404
    /\ \E b \in bookings : b.status = "in-progress"

\* C18: the overlap predicate is symmetric: for all instants s1, e1, s2, e2,
\* doTimeRangesOverlap(s1, e1, s2, e2) = doTimeRangesOverlap(s2, e2, s1, e1).
C18_OverlapSymmetric ==
    calc.fn = "doTimeRangesOverlap"
    => calc.out = doTimeRangesOverlap(calc.args[3], calc.args[4],
                                      calc.args[1], calc.args[2])

\* two different ranges, one inside the other, were found to overlap
C18_Witness ==
    /\ calc.fn = "doTimeRangesOverlap"
    /\ calc.out
    /\ calc.args[1] < calc.args[3] /\ calc.args[4] < calc.args[2]

\* C19: adjacent ranges do not overlap: for a < b < c the predicate is false
\* on (a, b, b, c) and on (b, c, a, b); two ranges that share an instant
\* t (s1 <= t < e1 and s2 <= t < e2, half-open) overlap.
C19_AdjacentDoNotOverlap ==
    calc.fn = "doTimeRangesOverlap"
    => LET s1 == calc.args[1]
           e1 == calc.args[2]
           s2 == calc.args[3]
           e2 == calc.args[4]
       IN  /\ (s1 < e1 /\ e1 = s2 /\ s2 < e2) => ~calc.out
           /\ (s2 < e2 /\ e2 = s1 /\ s1 < e1) => ~calc.out
           /\ (\E t \in Instants : s1 <= t /\ t < e1 /\ s2 <= t /\ t < e2)
                 => calc.out

\* [0, 1) and [1, 2), in that order, were found not to overlap
C19_Witness ==
    /\ calc.fn = "doTimeRangesOverlap"
    /\ calc.args = <<0, 1, 1, 2>>
    /\ ~calc.out

\* C20: the overlap predicate is reflexive on non-empty ranges: for s < e,
\* doTimeRangesOverlap(s, e, s, e) is true; for s = e it is false.
C20_OverlapReflexive ==
    ( /\ calc.fn = "doTimeRangesOverlap"
      /\ calc.args[1] = calc.args[3]
      /\ calc.args[2] = calc.args[4] )
    => /\ calc.args[1] < calc.args[2] => calc.out
       /\ calc.args[1] = calc.args[2] => ~calc.out

\* a range of one half-hour was found to overlap itself
C20_Witness ==
    /\ calc.fn = "doTimeRangesOverlap"
    /\ calc.args = <<1, 2, 1, 2>>
    /\ calc.out

\* a step of the availability call (a write by another call changes nothing
\* of its record but the history flag)
ResolveSteps == res'.pc # res.pc \/ res'.i # res.i

\* C11: the availability call has no side effects: on every input, valid or
\* not, each of its steps leaves the vehicles and the reservations (their
\* statuses included) exactly as they were.
C11_ResolveWritesNothing ==
    [][ ResolveSteps => vehicles' = vehicles /\ bookings' = bookings ]_vars

\* a query was answered with v1 booked and v2 listed; the ledger holds the one
\* reservation the commit put there
C11_Witness ==
    /\ res.pc = "done" /\ res.status = 200
    /\ "v2" \in Range(res.available) /\ "v1" \notin Range(res.available)
    /\ \E b \in bookings : b.vehicleId = "v1" /\ b.status = "confirmed"
    /\ Cardinality(bookings) = 1

\* a query that meets what the contract asks of capacity, origin, destination
\* and start
WellFormedQuery(q, clock) ==
    /\ q.capacityRequired.k = "num" /\ q.capacityRequired.n > 0
    /\ Len(q.fromPincode) = 6 /\ \A i \in 1..6 : q.fromPincode[i] \in Digits
    /\ Len(q.toPincode) = 6 /\ \A i \in 1..6 : q.toPincode[i] \in Digits
    /\ q.startTime.k = "iso" /\ q.startTime.t > clock

\* C13: a well-formed availability request never ends in an error of its
\* own: it passes the parameter checks, and its answer is 200 (500 only when
\* a storage call fails), never 404 or 409; when no active vehicle has the
\* capacity, or every eligible vehicle has an overlapping active
\* reservation, the answer is 200 with an empty list.
C13_ResolveAlwaysSucceeds ==
    [][ /\ (res.pc = "idle" /\ res'.pc # "idle" /\ WellFormedQuery(res'.query, now))
             => res'.pc = "findVehicles"
        /\ (res.pc \in {"findVehicles", "loop"} /\ res'.pc = "done")
             => LET q == res.query
                    d == calculateRideDuration(q.fromPincode, q.toPincode)
                    free == { v \in DOMAIN vehicles :
                                /\ vehicles[v].isActive
                                /\ vehicles[v].capacityKg >= q.capacityRequired.n
                                /\ Occupying(bookings, v, q.startTime.t,
                                             q.startTime.t + d) = {} }
                IN  /\ res'.status \in {200, 500}
                    /\ (res'.status = 200 /\ res'.fixed /\ free = {})
                          => res'.available = <<>>
        /\ res'.status \notin {404, 409} ]_vars

\* every vehicle with the capacity was booked or retired, and the answer was
\* 200 with an empty list
C13_Witness ==
    /\ res.pc = "done" /\ res.status = 200 /\ res.fixed
    /\ res.available = <<>>
    /\ res.message = "Found available vehicles"
    /\ res.query.capacityRequired.n = 1000

\* the reservations of vehicle v that overlap [s, e) and no longer occupy it
Released(coll, v, s, e) ==
    { b \in coll : /\ b.vehicleId = v
                   /\ b.status \in {"cancelled", "completed"}
                   /\ doTimeRangesOverlap(s, e, b.startTime, b.endTime) }

\* C17: a reservation moved to cancelled or completed frees its slot.  When
\* the only reservations of a vehicle that overlap a window are cancelled or
\* completed ones, an availability answer for that window (computed while
\* nothing was written) lists the vehicle if it is active and has the
\* capacity, and a valid commit for that window on that vehicle answers 201
\* and inserts the reservation.
C17_ClosedReservationFreesSlot ==
    [][ /\ ( /\ res.pc \in {"findVehicles", "loop"}
              /\ res'.pc = "done" /\ res'.status = 200 /\ res'.fixed )
            => LET q == res.query
                   s == q.startTime.t
                   e == s + calculateRideDuration(q.fromPincode, q.toPincode)
               IN  \A v \in DOMAIN vehicles :
                     ( /\ vehicles[v].isActive
                       /\ vehicles[v].capacityKg >= q.capacityRequired.n
                       /\ Released(bookings, v, s, e) # {}
                       /\ Occupying(bookings, v, s, e) = {} )
                     => v \in Range(res'.available)
        /\ \A r \in Requests :
             ( /\ req[r].pc \in {"findConflicts", "save", "populate", "commit"}
               /\ Answers(r)
               /\ Released(bookings, req[r].body.vehicleId,
                           BodyStart(req[r].body), BodyEnd(req[r].body)) # {}
               /\ Occupying(bookings, req[r].body.vehicleId,
                            BodyStart(req[r].body), BodyEnd(req[r].body)) = {} )
             => /\ req'[r].status = 201
                /\ \E d \in bookings' \ bookings :
                     /\ d.vehicleId = req[r].body.vehicleId
                     /\ d.startTime = BodyStart(req[r].body)
                     /\ d.endTime = BodyEnd(req[r].body)
                     /\ d.status = "confirmed" ]_vars

\* the reservation of v1 was cancelled; the availability answer for its
\* window then listed v1, and a commit for that window on v1 was accepted
C17_Witness ==
    /\ res.pc = "done" /\ res.status = 200 /\ res.fixed
    /\ "v1" \in Range(res.available)
    /\ \E b1 \in bookings, b2 \in bookings :
         /\ b1.vehicleId = "v1" /\ b1.status = "cancelled"
         /\ b2.vehicleId = "v1" /\ b2.status = "confirmed"
         /\ b1.createdAt <= b2.createdAt /\ b1._id = 1 /\ b2._id = 2
         /\ b1.startTime = b2.startTime /\ b1.endTime = b2.endTime
         /\ res.startTime = b2.startTime /\ res.endTime = b2.endTime
         /\ req[2].status = 201

\* C12: the availability call is idempotent: when the same request is asked
\* twice and no commit, status update or vehicle change happens from the
\* first call's start to the second call's answer, two answers of 200 carry
\* the same estimated duration and the same set of available vehicles (a
\* second call that finds the start no longer in the future is refused, and
\* a storage failure answers 500).
C12_ResolveIdempotent ==
    [][ ( /\ res.pc \in {"findVehicles", "loop"}
          /\ res'.pc = "done" /\ res'.status = 200 )
        => \A f \in res.first :
             f.status = 200
             => /\ f.duration = res'.duration
                /\ Range(f.available) = Range(res'.available) ]_vars

\* both answers listed v2 and left out v1, which is booked over the window
C12_Witness ==
    /\ res.pc = "done" /\ res.status = 200
    /\ \E f \in res.first : f.status = 200 /\ "v2" \in Range(f.available)
    /\ "v2" \in Range(res.available) /\ "v1" \notin Range(res.available)
    /\ \E b \in bookings : b.vehicleId = "v1" /\ b.status = "confirmed"
    /\ now > 0

\* a string of exactly six decimal digits
SixDigits(s) == Len(s) = 6 /\ \A i \in 1..Len(s) : s[i] \in Digits

\* C14: malformed requests are refused with ValidationError before any
\* storage access.  The availability call answers 400 in its first step, with
\* no storage call issued, when the capacity is missing, not a number or not
\* positive, when origin or destination is not exactly six digits, or when
\* the start is missing, malformed or not strictly in the future; the commit
\* does so when a field is missing, the vehicleId is malformed, origin or
\* destination is not exactly six digits, or the start is malformed.
C14_MalformedRefusedFirst ==
    [][ /\ (res.pc = "idle" /\ res'.pc # "idle")
             => LET q == res'.query
                IN  ( \/ q.capacityRequired.k # "num"
                      \/ q.capacityRequired.n <= 0
                      \/ ~SixDigits(q.fromPincode) \/ ~SixDigits(q.toPincode)
                      \/ q.startTime.k # "iso"
                      \/ q.startTime.t <= now )
                    => /\ res'.pc = "done" /\ res'.status = 400
                       /\ vehicles' = vehicles /\ bookings' = bookings
        /\ \A r \in Requests :
             (req[r].pc = "idle" /\ Steps(r))
             => LET body == req'[r].body
                IN  ( \/ body.vehicleId = "" \/ body.customerId = ""
                      \/ body.vehicleId = "bad"
                      \/ ~SixDigits(body.fromPincode) \/ ~SixDigits(body.toPincode)
                      \/ body.startTime.k # "iso" )
                    => /\ req'[r].pc = "done" /\ req'[r].status = 400
                       /\ vehicles' = vehicles /\ bookings' = bookings ]_vars

\* a five-digit destination was refused by the availability call and a
\* malformed vehicleId by the commit
C14_Witness ==
    /\ res.pc = "done" /\ res.status = 400 /\ res.query.toPincode = P12345
    /\ req[1].pc = "done" /\ req[1].status = 400 /\ req[1].body.vehicleId = "bad"

\* C21: for every pair of valid six-digit pincodes calculateRideDuration
\* returns a positive duration of at least 0.5 hours (one half-hour), exactly
\* 0.5 hours when the two pincodes are equal, so the window computed from it
\* ends strictly after it starts.
C21_DurationAtLeastHalfHour ==
    calc.fn = "calculateRideDuration"
    => /\ calc.out >= 1
       /\ calc.args[1] = calc.args[2] => calc.out = 1
       /\ \A start \in 0..MaxStart : calculateEndTime(start, calc.out) > start

\* the estimate of 110001 -> 110001 is half an hour
C21_Witness ==
    /\ calc.fn = "calculateRideDuration"
    /\ calc.args = <<P110001, P110001>>
    /\ calc.out = 1

\* C22: for valid pincodes whose numbers differ by exactly 24, in either
\* order, calculateRideDuration returns 24 hours; for a difference of 1 it
\* returns 1 hour and for a difference of 50 it returns 2 hours.
C22_DurationOfTestPincodes ==
    calc.fn = "calculateRideDuration"
    => LET diff == Abs(parseInt(calc.args[2]) - parseInt(calc.args[1]))
       IN  /\ diff = 24 => calc.out = 2 * 24
           /\ diff = 1 => calc.out = 2 * 1
           /\ diff = 50 => calc.out = 2 * 2

\* a body whose three fields are present with the right types
Typed(body) ==
    body.name.k = "str" /\ body.capacityKg.k = "num" /\ body.tyres.k = "num"

\* every vehicle record has a positive capacity and 2 to 18 tyres
VehiclesInRange ==
    \A v \in DOMAIN vehicles :
        vehicles[v].capacityKg > 0 /\ vehicles[v].tyres >= 2 /\ vehicles[v].tyres <= 18

\* the POST /api/vehicles step answers 400 and stores nothing
Rejects == vpost'.code = 400 /\ vehicles' = vehicles

\* the POST /api/vehicles step answers 201 and stores one more vehicle, active
Accepts ==
    /\ vpost'.code = 201
    /\ \E id \in DOMAIN vehicles' \ DOMAIN vehicles :
        /\ DOMAIN vehicles' = DOMAIN vehicles \cup {id}
        /\ vehicles'[id] \in vpost'.vehicle
        /\ vehicles'[id].isActive
        /\ \A v \in DOMAIN vehicles : vehicles'[v] = vehicles[v]

\* C23 as stated: vehicle insert rejects with a validation error, storing
\* nothing, a request with a non-positive capacity, a tyre count outside
\* [2,18] or an empty name, and accepts every other request; every vehicle
\* record has capacity > 0 and 2 to 18 tyres
C23_InsertRejectsOnlyThese ==
    /\ []VehiclesInRange
    /\ [][\A body \in VehicleBodies :
            AddVehicle(body) /\ Typed(body) =>
                IF \/ body.capacityKg.n <= 0
                   \/ body.tyres.n < 2 \/ body.tyres.n > 18
                   \/ body.name.s = <<>>
                THEN Rejects
                ELSE Accepts]_vars

\* C23 amended: vehicle insert rejects with a validation error, storing
\* nothing, a request with a missing or wrongly typed field, a capacity below
\* 1 or above 50000, a tyre count outside [2,18], or a name that is empty
\* after trimming or longer than 100 characters, and accepts every other
\* request, storing the vehicle as active; a storage failure stores nothing;
\* every vehicle record has capacity > 0 and 2 to 18 tyres
C23_InsertValidates ==
    /\ []VehiclesInRange
    /\ [][\A body \in VehicleBodies :
            /\ AddVehicle(body) =>
                  IF \/ ~Typed(body)
                     \/ body.capacityKg.n < 1 \/ body.capacityKg.n > 50000
                     \/ body.tyres.n < 2 \/ body.tyres.n > 18
                     \/ \A i \in 1..Len(body.name.s) : body.name.s[i] = " "
                     \/ Len(trimName(body.name.s)) > 100
                  THEN Rejects
                  ELSE Accepts
            /\ AddVehicleError(body) => vehicles' = vehicles]_vars

\* the second vehicle added was accepted with 18 tyres and the largest
\* capacity, and is stored active
C23_Witness ==
    /\ vpost.code = 201
    /\ "v5" \in DOMAIN vehicles
    /\ vehicles["v5"] \in vpost.vehicle
    /\ vehicles["v5"].tyres = 18 /\ vehicles["v5"].capacityKg = 50000
    /\ vehicles["v5"].isActive

\* C24: after any sequence of commits and status updates executed one at a
\* time, the confirmed and in-progress reservations of every vehicle are
\* pairwise non-overlapping: an active reservation is the only active
\* reservation of its vehicle that overlaps its window.
C24_SequentialNoDoubleBooking ==
    \A b \in bookings :
        b.status \in ActiveStatuses
            => Occupying(bookings, b.vehicleId, b.startTime, b.endTime) = {b}

\* C25: the overlap check of a commit and its insertion are one atomic step
\* with respect to status changes on the vehicle: when a commit answers
\* success, the reservation it inserted is the only active reservation of its
\* vehicle that overlaps its window at the moment the insert becomes visible.
C25_CheckAndInsertAtomic ==
    [][ \A r \in Requests :
          (Answers(r) /\ req'[r].status = 201)
          => \A b \in bookings' :
                b._id = r =>
                    Occupying(bookings', b.vehicleId, b.startTime, b.endTime) = {b}
      ]_vars

\* the windows a request can ask for over the ledgers of SpecFilter
Windows == { w \in (0..(MaxStart + 2)) \X (1..(MaxStart + 3)) : w[1] < w[2] }

\* C26: the storage filter of the commit and that of the availability route
\* (status confirmed or in-progress, startTime < requested end, endTime >
\* requested start) select, for every ledger, vehicle and window, the same
\* reservations: exactly the active reservations of the vehicle for which
\* doTimeRangesOverlap(requested start, requested end, startTime, endTime).
C26_FilterIsOverlapPredicate ==
    \A v \in DOMAIN vehicles, w \in Windows :
        LET selected == { b \in bookings :
                            /\ b.vehicleId = v
                            /\ b.status \in {"confirmed", "in-progress"}
                            /\ doTimeRangesOverlap(w[1], w[2], b.startTime, b.endTime) }
        IN  /\ FindOverlapping(bookings, v, w[1], w[2]) = selected
            /\ OverlappingBookings(bookings, v, w[1], w[2]) = selected

\* v1 has an active ride of 1 h that began before the window [2, 4) and a
\* cancelled ride inside it: the filters select the first alone
C26_Witness ==
    \E b \in bookings, c \in bookings :
        /\ b.vehicleId = "v1" /\ c.vehicleId = "v1"
        /\ b.status = "in-progress" /\ b.startTime = 1 /\ b.endTime = 3
        /\ c.status = "cancelled" /\ c.startTime = 2
        /\ FindOverlapping(bookings, "v1", 2, 4) = {b}
        /\ OverlappingBookings(bookings, "v1", 2, 4) = {b}

\* C27: commits on different vehicles are independent.  A commit answers
\* ConflictError only for active reservations of its own vehicle, and its
\* conflict list names those and no reservation of another vehicle; of two
\* concurrent commits for different vehicles, whatever their windows, neither
\* answers ConflictError in any interleaving: each succeeds unless its own
\* input is refused (400, 404) or the storage fails (500).
C27_VehiclesAreIndependent ==
    /\ [](\A r1 \in Requests, r2 \in Requests :
            ( /\ r1 # r2
              /\ req[r1].pc = "done" /\ req[r2].pc = "done"
              /\ req[r1].body.vehicleId # req[r2].body.vehicleId )
            => /\ req[r1].status \in {201, 400, 404, 500}
               /\ req[r1].conflicts = {})
    /\ [][ \A r \in Requests :
            (Answers(r) /\ req'[r].status = 409)
            => LET own == Occupying(bookings, req[r].body.vehicleId,
                                    req[r].startTime, req[r].endTime)
               IN  own # {} /\ req'[r].conflicts = ConflictSummary(own) ]_vars

\* two concurrent commits for v1 and v2 with the same window both succeeded
C27_Witness ==
    /\ req[1].pc = "done" /\ req[2].pc = "done"
    /\ req[1].status = 201 /\ req[2].status = 201
    /\ req[1].body.vehicleId # req[2].body.vehicleId
    /\ req[1].body.startTime = req[2].body.startTime
    /\ req[1].body.toPincode = req[2].body.toPincode
    /\ Cardinality(bookings) = 2
    /\ \A b \in bookings : b.createdAt = now

\* C28: every commit call ends in exactly one terminal outcome: 201, 400, 404,
\* 409 or 500, after which the call's record never changes.  Success is
\* answered in the step that commits the transaction and makes the insert
\* visible: a call's reservation is in the ledger exactly when the call has
\* answered 201, so no caller holds a success for a reservation that is not
\* in the ledger and no failed or unfinished call has one in it.
C28_OneTerminalOutcome ==
    /\ [](\A r \in Requests :
            /\ req[r].pc = "done" => req[r].status \in {201, 400, 404, 409, 500}
            /\ Stored(r) <=> (req[r].pc = "done" /\ req[r].status = 201))
    /\ [][ \A r \in Requests :
            /\ req[r].pc = "done" => req'[r] = req[r]
            /\ (Answers(r) /\ req'[r].status = 201)
                  => \E b \in bookings' \ bookings :
                        b._id = r /\ bookings' = bookings \cup {b} ]_vars

\* one call succeeded and its reservation, since completed, is in the ledger;
\* the other ended in InternalError and left nothing
C28_Witness ==
    \E r \in Requests, f \in Requests :
        /\ req[r].pc = "done" /\ req[r].status = 201
        /\ req[f].pc = "done" /\ req[f].status = 500
        /\ req[f].body = req[r].body
        /\ \E b \in bookings : b._id = r /\ b.status = "completed"
        /\ ~Stored(f)

\* C29 as stated: the commit validates activeness at commit time, so no
\* reservation is inserted for a vehicle that is inactive at the moment of the
\* insertion, also when it was retired between the lookup and the insert.
C29_ActiveAtInsertion ==
    [][ \A r \in Requests :
          (Answers(r) /\ req'[r].status = 201)
          => vehicles[req[r].body.vehicleId].isActive ]_vars

\* C29 amended: the commit validates activeness once, at its vehicle lookup.
\* A vehicle missing or inactive when the lookup answers (retired at any point
\* before it) fails the commit with NotFoundError and nothing is inserted; a
\* vehicle active at the lookup lets the commit go on, and no later step
\* answers NotFoundError, whether or not the vehicle has been retired since.
C29_ActivenessCheckedAtLookup ==
    [][ \A r \in Requests :
          /\ (req[r].pc = "findVehicle" /\ Steps(r) /\ req'[r].status # 500)
                => LET id == req[r].body.vehicleId
                   IN  IF id \in DOMAIN vehicles /\ vehicles[id].isActive
                       THEN req'[r].pc = "findConflicts"
                       ELSE /\ req'[r].pc = "done" /\ req'[r].status = 404
                            /\ bookings' = bookings
          /\ (req[r].pc \in {"findConflicts", "save", "populate", "commit"} /\ Steps(r))
                => req'[r].status # 404 ]_vars

\* v2 was retired after one commit for it had passed the lookup and before
\* its insert; another commit for v2, looked up since, was answered 404
C29_Witness ==
    \E r \in Requests, f \in Requests :
        /\ req[r].pc = "commit" /\ req[r].body.vehicleId = "v2"
        /\ ~vehicles["v2"].isActive
        /\ req[f].pc = "done" /\ req[f].status = 404
        /\ req[f].body.vehicleId = "v2"

\* C30: resolve and commit agree when nothing interferes.  When the
\* availability answer lists vehicle V for an origin, a destination and a
\* start, nothing has written a reservation of V or retired V since the query
\* was asked, and the start is still in the future and within 365 days, the
\* commit for V with that origin, destination and start answers success (500
\* only if the storage itself fails), whatever was written for other vehicles.
C30_ResolveThenCommitSucceeds ==
    [][ LET body == req'[2].body
            V == body.vehicleId
        IN  ( /\ Answers(2)
              /\ res.pc = "done" /\ res.status = 200
              /\ V \in Range(res.available)
              /\ res.query.fromPincode = body.fromPincode
              /\ res.query.toPincode = body.toPincode
              /\ res.query.startTime = body.startTime
              /\ vehicles[V].isActive
              /\ \A b \in bookings : b._id = DirectId => b.vehicleId # V
              /\ validateBookingTime(BodyStart(body), now).isValid )
            => req'[2].status \in {201, 500} ]_vars

\* v1 was listed for [2, 3) right after a confirmed ride [1, 2) of v1; a
\* direct save then took [2, 3) on v2, and the commit for v1 succeeded
C30_Witness ==
    /\ req[2].pc = "done" /\ req[2].status = 201 /\ Resolved(2)
    /\ req[2].body.vehicleId = "v1" /\ BodyStart(req[2].body) = 2
    /\ \E b \in bookings :
         b._id = 1 /\ b.vehicleId = "v1" /\ b.status = "confirmed" /\ b.endTime = 2
    /\ \E b \in bookings :
         b._id = DirectId /\ b.vehicleId = "v2" /\ b.startTime = 2

C32_NoEmptyInterval ==
    \A b \in bookings :
        /\ b.estimatedRideDurationHours >= 1
        /\ b.endTime > b.startTime
        /\ b.status \in ActiveStatuses
              => b \in FindOverlapping(bookings, b.vehicleId, b.startTime, b.endTime)

\* a committed ride between pincodes 24 apart: the modulo gives 0 and the
\* minimum makes it 0.5 h
C32_Witness ==
    \E b \in bookings :
        /\ b.fromPincode = P110001 /\ b.toPincode = P110025
        /\ b.estimatedRideDurationHours = 1
        /\ b.endTime = b.startTime + 1
        /\ b.status = "confirmed"

\* C33: the ledger only grows and committed intervals do not change.  No
\* step of any route (commit, status update, availability, the listings of
\* bookings and vehicles, vehicle insert) removes a reservation or changes the
\* vehicle, the start or the end of one; a reservation is added only by the
\* step in which a commit answers 201, and a status changes only in a step of
\* the status update.
C33_LedgerOnlyGrows ==
    [][ /\ \A b \in bookings :
             \E c \in bookings' :
                 /\ c._id = b._id
                 /\ c.vehicleId = b.vehicleId
                 /\ c.startTime = b.startTime
                 /\ c.endTime = b.endTime
        /\ \A c \in bookings' :
             (\A b \in bookings : b._id # c._id)
                => /\ c._id \in Requests
                   /\ Answers(c._id) /\ req'[c._id].status = 201
                   /\ Cardinality(bookings') = Cardinality(bookings) + 1
        /\ (\E b \in bookings, c \in bookings' :
                c._id = b._id /\ c.status # b.status)
             => \E id \in Requests, t \in Statuses :
                    UpdateStatus(id, t) \/ UpdateStatusError(id, t) ]_vars

\* both commits are in the ledger, the first cancelled since; a vehicle was
\* added, and the last listing, of the cancelled reservations, returned the
\* first
C33_Witness ==
    /\ Cardinality(bookings) = 2
    /\ "v4" \in DOMAIN vehicles
    /\ got.route = "GET /api/bookings" /\ got.code = 200
    /\ \E b \in bookings :
         /\ b._id = 1 /\ b.status = "cancelled" /\ got.out = {b}

\* C34: the start is checked against the clock twice.  The request validation
\* refuses a well-formed start that is not after the clock at that moment;
\* the validator of the model checks again when the reservation is saved in
\* the transaction: a start that is no longer after the clock then ends the
\* commit with ValidationError (400), nothing is inserted, by that step or
\* later, and a start still after the clock lets the save go through.
C34_StartCheckedTwice ==
    /\ [][ \A r \in Requests :
            /\ ( /\ req[r].pc = "idle" /\ Steps(r)
                 /\ req'[r].body \in WellShapedBodies
                 /\ BodyStart(req'[r].body) <= now )
                  => req'[r].pc = "done" /\ req'[r].status = 400
            /\ (req[r].pc = "save" /\ Steps(r) /\ req'[r].status # 500)
                  => IF req[r].startTime <= now
                     THEN /\ req'[r].pc = "done" /\ req'[r].status = 400
                          /\ req'[r].message = "Booking validation failed"
                          /\ bookings' = bookings
                     ELSE trim(req[r].body.customerId) # ""
                            => req'[r].pc = "populate" ]_vars
    /\ [](\A r \in Requests :
            (req[r].pc = "done" /\ req[r].message = "Booking validation failed")
                => ~Stored(r))

\* a commit with a requester whose start the request validation accepted was
\* refused by the model validator: the clock had reached its start
C34_Witness ==
    \E r \in Requests :
        /\ req[r].pc = "done" /\ req[r].status = 400
        /\ req[r].message = "Booking validation failed"
        /\ req[r].body.customerId = "c1"
        /\ BodyStart(req[r].body) = now
        /\ ~Stored(r)

\* C35: the availability call sets no upper limit on the start and the
\* commit does.  With everything else well formed, the availability call
\* goes on to its storage reads exactly when the start is after the clock,
\* however far ahead; the commit goes on exactly when the start is after the
\* clock and at most 365 days ahead, and answers ValidationError for a start
\* further ahead.  So the two accept the same starts within 365 days, and
\* beyond them only the availability call accepts.
C35_OnlyCommitLimitsStart ==
    [][ /\ ( /\ res.pc = "idle" /\ res'.pc # "idle"
             /\ res'.query \in WellShapedQueries
             /\ res'.query.capacityRequired.n > 0 )
             => (res'.pc = "findVehicles" <=> res'.query.startTime.t > now)
        /\ \A r \in Requests :
             (req[r].pc = "idle" /\ Steps(r) /\ req'[r].body \in WellShapedBodies)
             => LET t == req'[r].body.startTime.t
                IN  /\ req'[r].pc = "findVehicle"
                          <=> (t > now /\ t <= now + 365 * 24 * 2)
                    /\ t > now + 365 * 24 * 2
                          => /\ req'[r].pc = "done" /\ req'[r].status = 400
                             /\ req'[r].message =
                                    "Cannot book more than 1 year in advance" ]_vars

\* v1 is listed as available for a start more than 365 days ahead, and the
\* commit for v1 with that start and route was refused as too far ahead
C35_Witness ==
    /\ res.pc = "done" /\ res.status = 200
    /\ "v1" \in Range(res.available)
    /\ res.query.startTime.t > now + 365 * 24 * 2
    /\ req[1].pc = "done" /\ req[1].status = 400
    /\ req[1].message = "Cannot book more than 1 year in advance"
    /\ req[1].body.vehicleId = "v1"
    /\ req[1].body.startTime = res.query.startTime
    /\ req[1].body.toPincode = res.query.toPincode
    /\ bookings = {}

====
